---- MODULE Spec2Model ----
(***************************************************************************)
(* Intent classification of the restaurant assistant                       *)
(* (src/app/chatbot_logic.py).  A text is a sequence of one-character      *)
(* strings; an intent score is an integer in 0..100.                       *)
(***************************************************************************)
EXTENDS Integers, Sequences, FiniteSets, TLC

(* ------------------------------------------------------------------ *)
(* Characters and the str methods normalize_text relies on            *)
(* ------------------------------------------------------------------ *)

UpperLetters == << "A","B","C","D","E","F","G","H","I","J","K","L","M",
                   "N","O","P","Q","R","S","T","U","V","W","X","Y","Z" >>

LowerLetters == << "a","b","c","d","e","f","g","h","i","j","k","l","m",
                   "n","o","p","q","r","s","t","u","v","w","x","y","z" >>

Digits == { "0","1","2","3","4","5","6","7","8","9" }

Range(s) == { s[i] : i \in DOMAIN s }

\* str.lower() on one character
LowerChar(c) ==
    IF c \in Range(UpperLetters)
    THEN LowerLetters[CHOOSE i \in DOMAIN UpperLetters : UpperLetters[i] = c]
    ELSE c

\* str.lower()
lower(text) == [i \in DOMAIN text |-> LowerChar(text[i])]

\* characters outside ASCII, each written by its code point: a letter that
\* has no case (CJK) and an upper-case letter that str.lower() leaves as it
\* is (MATHEMATICAL BOLD CAPITAL A); both are alphanumeric
OtherLetters == { "U+4E2D", "U+1D400" }

\* the regex class \w of a str pattern: alphanumeric characters and "_"
IsWordChar(c) ==
    c \in Range(UpperLetters) \cup Range(LowerLetters) \cup Digits \cup {"_"}
           \cup OtherLetters

\* the regex class \s, and the characters str.strip() and str.split() drop
IsSpace(c) == c \in { " ", "\t", "\n" }

Max2(x, y) == IF x >= y THEN x ELSE y

Min2(x, y) == IF x <= y THEN x ELSE y

\* max() of a non-empty set of integers
MaxOf(S) == CHOOSE x \in S : \A y \in S : y <= x

\* str.strip()
strip(text) ==
    LET keep == { i \in DOMAIN text : ~IsSpace(text[i]) }
    IN  IF keep = {} THEN << >>
        ELSE SubSeq(text, CHOOSE i \in keep : \A j \in keep : i <= j,
                          CHOOSE i \in keep : \A j \in keep : j <= i)

\* str.split(): the maximal runs of non-whitespace characters, in order
split(text) ==
    LET starts == { i \in DOMAIN text :
                      ~IsSpace(text[i]) /\ (i = 1 \/ IsSpace(text[i - 1])) }
        last(i) == CHOOSE j \in i..Len(text) :
                      /\ \A k \in i..j : ~IsSpace(text[k])
                      /\ (j = Len(text) \/ IsSpace(text[j + 1]))
        nth(n)  == CHOOSE i \in starts :
                      Cardinality({ j \in starts : j < i }) = n - 1
    IN  [n \in 1..Cardinality(starts) |-> SubSeq(text, nth(n), last(nth(n)))]

\* ' '.join(words)
RECURSIVE join(_)
join(words) ==
    IF words = << >> THEN << >>
    ELSE IF Len(words) = 1 THEN words[1]
    ELSE words[1] \o << " " >> \o join(Tail(words))

\* text[i..] starts with pat
StartsAt(text, i, pat) ==
    /\ i + Len(pat) - 1 <= Len(text)
    /\ \A k \in 1..Len(pat) : text[i + k - 1] = pat[k]

\* pat in text
Contains(text, pat) == \E i \in 1..(Len(text) + 1) : StartsAt(text, i, pat)

\* str.replace(old, new): the non-overlapping occurrences of old, left to
\* right, are replaced; the replacement is not scanned again
RECURSIVE ReplaceFrom(_, _, _, _)
ReplaceFrom(text, i, old, new) ==
    LET found == { p \in i..Len(text) : StartsAt(text, p, old) }
    IN  IF found = {} THEN SubSeq(text, i, Len(text))
        ELSE LET p == CHOOSE q \in found : \A r \in found : q <= r
             IN  SubSeq(text, i, p - 1) \o new
                 \o ReplaceFrom(text, p + Len(old), old, new)

replace(text, old, new) == ReplaceFrom(text, 1, old, new)

(* ------------------------------------------------------------------ *)
(* fuzzywuzzy.fuzz as the code calls it (difflib.SequenceMatcher)      *)
(* ------------------------------------------------------------------ *)

\* length of the common run of a[i..ahi] and b[j..bhi]
RECURSIVE RunLen(_, _, _, _, _, _)
RunLen(a, b, i, j, ahi, bhi) ==
    IF i > ahi \/ j > bhi THEN 0
    ELSE IF a[i] # b[j] THEN 0
    ELSE 1 + RunLen(a, b, i + 1, j + 1, ahi, bhi)

\* SequenceMatcher.__chain_b: for each element, the positions it has in b
chain_b(a, b) == [c \in Range(a) |-> { j \in DOMAIN b : b[j] = c }]

\* SequenceMatcher.find_longest_match on a[alo..ahi], b[blo..bhi] (inclusive):
\* the longest common block; of those the one starting earliest in a, and of
\* those the one starting earliest in b.  <<i, j, k>>, k = 0 when none.
find_longest_match(a, b, b2j, alo, ahi, blo, bhi) ==
    LET starts == UNION { { << i, j >> :
                              j \in { n \in b2j[a[i]] :
                                        /\ blo <= n /\ n <= bhi
                                        /\ \/ i = alo
                                           \/ n = blo
                                           \/ a[i - 1] # b[n - 1] } } :
                          i \in alo..ahi }
    IN  IF starts = {} THEN << alo, blo, 0 >>
        ELSE LET size == [p \in starts |-> RunLen(a, b, p[1], p[2], ahi, bhi)]
                 best == MaxOf({ size[p] : p \in starts })
                 cand == { p \in starts : size[p] = best }
                 bi   == CHOOSE i \in { p[1] : p \in cand } :
                            \A p \in cand : i <= p[1]
                 bj   == CHOOSE j \in { p[2] : p \in { q \in cand : q[1] = bi } } :
                            \A p \in { q \in cand : q[1] = bi } : j <= p[2]
             IN  << bi, bj, best >>

\* the recursion of SequenceMatcher.get_matching_blocks: the longest block,
\* then the same to its left and to its right, in increasing order
RECURSIVE blocks_between(_, _, _, _, _, _, _)
blocks_between(a, b, b2j, alo, ahi, blo, bhi) ==
    IF alo > ahi \/ blo > bhi THEN << >>
    ELSE LET m == find_longest_match(a, b, b2j, alo, ahi, blo, bhi)
         IN  IF m[3] = 0 THEN << >>
             ELSE blocks_between(a, b, b2j, alo, m[1] - 1, blo, m[2] - 1)
                  \o << m >>
                  \o blocks_between(a, b, b2j, m[1] + m[3], ahi, m[2] + m[3], bhi)

\* SequenceMatcher.get_matching_blocks without the closing (la, lb, 0) block
matching_blocks(a, b) ==
    blocks_between(a, b, chain_b(a, b), 1, Len(a), 1, Len(b))

RECURSIVE SumSizes(_)
SumSizes(blocks) ==
    IF blocks = << >> THEN 0 ELSE Head(blocks)[3] + SumSizes(Tail(blocks))

\* utils.intr(100 * 2.0 * matches / length): round half to even
intr200(matches, length) ==
    LET q == (200 * matches) \div length
        r == (200 * matches) % length
    IN  IF 2 * r > length THEN q + 1
        ELSE IF 2 * r < length THEN q
        ELSE IF q % 2 = 0 THEN q ELSE q + 1

\* SequenceMatcher(None, a, b).ratio() scaled: 2 * matches / (len a + len b)
matcher_ratio(a, b) ==
    IF Len(a) + Len(b) = 0 THEN 100
    ELSE intr200(SumSizes(matching_blocks(a, b)),
                 Len(a) + Len(b))

\* fuzz.ratio
ratio(s1, s2) ==
    IF s1 = s2 THEN 100
    ELSE IF Len(s1) = 0 \/ Len(s2) = 0 THEN 0
    ELSE matcher_ratio(s1, s2)

\* fuzz.partial_ratio: the shorter string against the window of the longer
\* one that each matching block (and the closing block) lines up with
partial_ratio(s1, s2) ==
    IF s1 = s2 THEN 100
    ELSE IF Len(s1) = 0 \/ Len(s2) = 0 THEN 0
    ELSE LET shorter == IF Len(s1) <= Len(s2) THEN s1 ELSE s2
             longer  == IF Len(s1) <= Len(s2) THEN s2 ELSE s1
             blocks  == matching_blocks(shorter, longer)
             offsets == { Max2(blocks[n][2] - blocks[n][1], 0) : n \in DOMAIN blocks }
                          \cup { Len(longer) - Len(shorter) }
             window(o) == SubSeq(longer, o + 1, Min2(o + Len(shorter), Len(longer)))
         IN  MaxOf({ matcher_ratio(shorter, window(o)) : o \in offsets })

\* INTENT_KEYWORDS in dictionary order; each keyword spelled out by character
Intents == << "greeting", "farewell", "hours_query", "branch_query", "about", "faq_query", "menu_query" >>

INTENT_KEYWORDS ==
       "greeting" :> <<
        << "h", "i" >>,  \* hi
        << "h", "e", "l", "l", "o" >>,  \* hello
        << "h", "e", "y" >>,  \* hey
        << "s", "a", "l", "a", "m" >>,  \* salam
        << "a", "s", "s", "a", "l", "a", "m" >>,  \* assalam
        << "g", "o", "o", "d", " ", "m", "o", "r", "n", "i", "n", "g" >>,  \* good morning
        << "g", "o", "o", "d", " ", "a", "f", "t", "e", "r", "n", "o", "o", "n" >>,  \* good afternoon
        << "g", "o", "o", "d", " ", "e", "v", "e", "n", "i", "n", "g" >>,  \* good evening
        << "g", "r", "e", "e", "t", "i", "n", "g", "s" >>,  \* greetings
        << "h", "i", " ", "t", "h", "e", "r", "e" >>,  \* hi there
        << "h", "e", "l", "l", "o", " ", "t", "h", "e", "r", "e" >>   \* hello there
       >>
    @@ "farewell" :> <<
        << "b", "y", "e" >>,  \* bye
        << "g", "o", "o", "d", "b", "y", "e" >>,  \* goodbye
        << "s", "e", "e", " ", "y", "o", "u" >>,  \* see you
        << "f", "a", "r", "e", "w", "e", "l", "l" >>,  \* farewell
        << "l", "a", "t", "e", "r" >>,  \* later
        << "t", "a", "k", "e", " ", "c", "a", "r", "e" >>,  \* take care
        << "s", "e", "e", " ", "y", "a" >>,  \* see ya
        << "g", "o", "o", "d", "b", "y", "e" >>,  \* goodbye
        << "c", "i", "a", "o" >>,  \* ciao
        << "a", "d", "i", "o", "s" >>   \* adios
       >>
    @@ "hours_query" :> <<
        << "o", "p", "e", "n" >>,  \* open
        << "o", "p", "e", "n", "i", "n", "g" >>,  \* opening
        << "o", "p", "e", "n", "s" >>,  \* opens
        << "c", "l", "o", "s", "e" >>,  \* close
        << "c", "l", "o", "s", "i", "n", "g" >>,  \* closing
        << "c", "l", "o", "s", "e", "s" >>,  \* closes
        << "h", "o", "u", "r", "s" >>,  \* hours
        << "h", "o", "u", "r" >>,  \* hour
        << "t", "i", "m", "i", "n", "g" >>,  \* timing
        << "t", "i", "m", "i", "n", "g", "s" >>,  \* timings
        << "t", "i", "m", "e" >>,  \* time
        << "s", "c", "h", "e", "d", "u", "l", "e" >>,  \* schedule
        << "w", "h", "e", "n" >>,  \* when
        << "w", "h", "a", "t", " ", "t", "i", "m", "e" >>,  \* what time
        << "o", "p", "e", "r", "a", "t", "i", "o", "n", "a", "l" >>,  \* operational
        << "w", "o", "r", "k", "i", "n", "g", " ", "h", "o", "u", "r", "s" >>,  \* working hours
        << "b", "u", "s", "i", "n", "e", "s", "s", " ", "h", "o", "u", "r", "s" >>   \* business hours
       >>
    @@ "branch_query" :> <<
        << "b", "r", "a", "n", "c", "h" >>,  \* branch
        << "b", "r", "a", "n", "c", "h", "e", "s" >>,  \* branches
        << "l", "o", "c", "a", "t", "i", "o", "n" >>,  \* location
        << "l", "o", "c", "a", "t", "i", "o", "n", "s" >>,  \* locations
        << "a", "d", "d", "r", "e", "s", "s" >>,  \* address
        << "a", "d", "d", "r", "e", "s", "s", "e", "s" >>,  \* addresses
        << "p", "h", "o", "n", "e" >>,  \* phone
        << "c", "o", "n", "t", "a", "c", "t" >>,  \* contact
        << "w", "h", "e", "r", "e" >>,  \* where
        << "f", "i", "n", "d" >>,  \* find
        << "l", "o", "c", "a", "t", "e" >>,  \* locate
        << "o", "u", "t", "l", "e", "t" >>,  \* outlet
        << "o", "u", "t", "l", "e", "t", "s" >>,  \* outlets
        << "s", "t", "o", "r", "e" >>,  \* store
        << "s", "t", "o", "r", "e", "s" >>,  \* stores
        << "s", "h", "o", "p" >>,  \* shop
        << "n", "e", "a", "r" >>   \* near
       >>
    @@ "about" :> <<
        << "a", "b", "o", "u", "t" >>,  \* about
        << "i", "n", "f", "o", "r", "m", "a", "t", "i", "o", "n" >>,  \* information
        << "i", "n", "f", "o" >>,  \* info
        << "t", "e", "l", "l", " ", "m", "e", " ", "a", "b", "o", "u", "t" >>,  \* tell me about
        << "w", "h", "o", " ", "a", "r", "e", " ", "y", "o", "u" >>,  \* who are you
        << "w", "h", "a", "t", " ", "i", "s" >>,  \* what is
        << "d", "e", "s", "c", "r", "i", "b", "e" >>,  \* describe
        << "d", "e", "t", "a", "i", "l", "s" >>,  \* details
        << "b", "a", "c", "k", "g", "r", "o", "u", "n", "d" >>,  \* background
        << "s", "t", "o", "r", "y" >>,  \* story
        << "h", "i", "s", "t", "o", "r", "y" >>,  \* history
        << "m", "i", "s", "s", "i", "o", "n" >>   \* mission
       >>
    @@ "faq_query" :> <<
        << "d", "e", "l", "i", "v", "e", "r", "y" >>,  \* delivery
        << "d", "e", "l", "i", "v", "e", "r" >>,  \* deliver
        << "v", "e", "g" >>,  \* veg
        << "v", "e", "g", "e", "t", "a", "r", "i", "a", "n" >>,  \* vegetarian
        << "h", "a", "l", "a", "l" >>,  \* halal
        << "s", "e", "r", "v", "i", "c", "e" >>,  \* service
        << "s", "e", "r", "v", "i", "c", "e", "s" >>,  \* services
        << "p", "a", "r", "k", "i", "n", "g" >>,  \* parking
        << "p", "a", "r", "k" >>,  \* park
        << "c", "a", "r" >>,  \* car
        << "p", "a", "y", "m", "e", "n", "t" >>,  \* payment
        << "p", "a", "y" >>,  \* pay
        << "c", "a", "r", "d" >>,  \* card
        << "c", "a", "s", "h" >>,  \* cash
        << "c", "r", "e", "d", "i", "t" >>,  \* credit
        << "r", "e", "s", "e", "r", "v", "a", "t", "i", "o", "n" >>,  \* reservation
        << "b", "o", "o", "k" >>,  \* book
        << "t", "a", "b", "l", "e" >>,  \* table
        << "s", "e", "a", "t" >>,  \* seat
        << "s", "i", "t", "t", "i", "n", "g" >>,  \* sitting
        << "w", "i", "f", "i" >>,  \* wifi
        << "i", "n", "t", "e", "r", "n", "e", "t" >>   \* internet
       >>
    @@ "menu_query" :> <<
        << "m", "e", "n", "u" >>,  \* menu
        << "d", "i", "s", "h" >>,  \* dish
        << "d", "i", "s", "h", "e", "s" >>,  \* dishes
        << "f", "o", "o", "d" >>,  \* food
        << "i", "t", "e", "m" >>,  \* item
        << "i", "t", "e", "m", "s" >>,  \* items
        << "o", "r", "d", "e", "r" >>,  \* order
        << "b", "u", "r", "g", "e", "r" >>,  \* burger
        << "p", "i", "z", "z", "a" >>,  \* pizza
        << "p", "a", "s", "t", "a" >>,  \* pasta
        << "d", "r", "i", "n", "k" >>,  \* drink
        << "f", "r", "i", "e", "s" >>,  \* fries
        << "p", "r", "i", "c", "e" >>,  \* price
        << "p", "r", "i", "c", "e", "s" >>,  \* prices
        << "c", "o", "s", "t" >>,  \* cost
        << "h", "o", "w", " ", "m", "u", "c", "h" >>,  \* how much
        << "v", "a", "r", "i", "a", "n", "t", "s" >>,  \* variants
        << "f", "l", "a", "v", "o", "u", "r", "s" >>,  \* flavours
        << "f", "l", "a", "v", "o", "r", "s" >>,  \* flavors
        << "s", "h", "o", "w" >>,  \* show
        << "w", "h", "a", "t" >>,  \* what
        << "l", "i", "s", "t" >>,  \* list
        << "s", "e", "e" >>,  \* see
        << "h", "a", "v", "e" >>,  \* have
        << "s", "e", "r", "v", "e" >>,  \* serve
        << "w", "h", "a", "t", "'", "s" >>,  \* what's
        << "w", "h", "a", "t", " ", "i", "s" >>,  \* what is
        << "w", "h", "a", "t", " ", "a", "r", "e" >>,  \* what are
        << "t", "e", "l", "l", " ", "m", "e" >>,  \* tell me
        << "s", "h", "o", "w", " ", "m", "e" >>,  \* show me
        << "g", "i", "v", "e", " ", "m", "e" >>,  \* give me
        << "i", " ", "w", "a", "n", "t" >>,  \* i want
        << "c", "a", "n", " ", "i", " ", "g", "e", "t" >>,  \* can i get
        << "w", "h", "a", "t", " ", "d", "o", " ", "y", "o", "u", " ", "h", "a", "v", "e" >>,  \* what do you have
        << "w", "h", "a", "t", " ", "d", "o", " ", "y", "o", "u", " ", "s", "e", "r", "v", "e" >>,  \* what do you serve
        << "w", "h", "a", "t", " ", "c", "a", "n", " ", "i", " ", "o", "r", "d", "e", "r" >>,  \* what can i order
        << "w", "h", "a", "t", " ", "o", "p", "t", "i", "o", "n", "s" >>,  \* what options
        << "s", "e", "l", "e", "c", "t", "i", "o", "n" >>,  \* selection
        << "s", "p", "i", "c", "y" >>,  \* spicy
        << "h", "o", "t" >>   \* hot
       >>

\* the contractions table of normalize_text, in dictionary order
contractions == <<
    << << "w", "h", "a", "t", "'", "s" >>, << "w", "h", "a", "t", " ", "i", "s" >> >>,  \* what's -> what is
    << << "w", "h", "a", "t", "'", "r", "e" >>, << "w", "h", "a", "t", " ", "a", "r", "e" >> >>,  \* what're -> what are
    << << "w", "h", "o", "'", "s" >>, << "w", "h", "o", " ", "i", "s" >> >>,  \* who's -> who is
    << << "w", "h", "e", "r", "e", "'", "s" >>, << "w", "h", "e", "r", "e", " ", "i", "s" >> >>,  \* where's -> where is
    << << "w", "h", "e", "n", "'", "s" >>, << "w", "h", "e", "n", " ", "i", "s" >> >>,  \* when's -> when is
    << << "w", "h", "y", "'", "s" >>, << "w", "h", "y", " ", "i", "s" >> >>,  \* why's -> why is
    << << "h", "o", "w", "'", "s" >>, << "h", "o", "w", " ", "i", "s" >> >>,  \* how's -> how is
    << << "i", "t", "'", "s" >>, << "i", "t", " ", "i", "s" >> >>,  \* it's -> it is
    << << "t", "h", "a", "t", "'", "s" >>, << "t", "h", "a", "t", " ", "i", "s" >> >>,  \* that's -> that is
    << << "t", "h", "e", "r", "e", "'", "s" >>, << "t", "h", "e", "r", "e", " ", "i", "s" >> >>,  \* there's -> there is
    << << "h", "e", "r", "e", "'", "s" >>, << "h", "e", "r", "e", " ", "i", "s" >> >>,  \* here's -> here is
    << << "i", "'", "m" >>, << "i", " ", "a", "m" >> >>,  \* i'm -> i am
    << << "y", "o", "u", "'", "r", "e" >>, << "y", "o", "u", " ", "a", "r", "e" >> >>,  \* you're -> you are
    << << "w", "e", "'", "r", "e" >>, << "w", "e", " ", "a", "r", "e" >> >>,  \* we're -> we are
    << << "t", "h", "e", "y", "'", "r", "e" >>, << "t", "h", "e", "y", " ", "a", "r", "e" >> >>,  \* they're -> they are
    << << "i", "'", "v", "e" >>, << "i", " ", "h", "a", "v", "e" >> >>,  \* i've -> i have
    << << "y", "o", "u", "'", "v", "e" >>, << "y", "o", "u", " ", "h", "a", "v", "e" >> >>,  \* you've -> you have
    << << "w", "e", "'", "v", "e" >>, << "w", "e", " ", "h", "a", "v", "e" >> >>,  \* we've -> we have
    << << "t", "h", "e", "y", "'", "v", "e" >>, << "t", "h", "e", "y", " ", "h", "a", "v", "e" >> >>,  \* they've -> they have
    << << "i", "'", "l", "l" >>, << "i", " ", "w", "i", "l", "l" >> >>,  \* i'll -> i will
    << << "y", "o", "u", "'", "l", "l" >>, << "y", "o", "u", " ", "w", "i", "l", "l" >> >>,  \* you'll -> you will
    << << "w", "e", "'", "l", "l" >>, << "w", "e", " ", "w", "i", "l", "l" >> >>,  \* we'll -> we will
    << << "t", "h", "e", "y", "'", "l", "l" >>, << "t", "h", "e", "y", " ", "w", "i", "l", "l" >> >>,  \* they'll -> they will
    << << "d", "o", "n", "'", "t" >>, << "d", "o", " ", "n", "o", "t" >> >>,  \* don't -> do not
    << << "d", "o", "e", "s", "n", "'", "t" >>, << "d", "o", "e", "s", " ", "n", "o", "t" >> >>,  \* doesn't -> does not
    << << "d", "i", "d", "n", "'", "t" >>, << "d", "i", "d", " ", "n", "o", "t" >> >>,  \* didn't -> did not
    << << "c", "a", "n", "'", "t" >>, << "c", "a", "n", "n", "o", "t" >> >>,  \* can't -> cannot
    << << "w", "o", "n", "'", "t" >>, << "w", "i", "l", "l", " ", "n", "o", "t" >> >>,  \* won't -> will not
    << << "i", "s", "n", "'", "t" >>, << "i", "s", " ", "n", "o", "t" >> >>,  \* isn't -> is not
    << << "a", "r", "e", "n", "'", "t" >>, << "a", "r", "e", " ", "n", "o", "t" >> >>,  \* aren't -> are not
    << << "w", "a", "s", "n", "'", "t" >>, << "w", "a", "s", " ", "n", "o", "t" >> >>,  \* wasn't -> was not
    << << "w", "e", "r", "e", "n", "'", "t" >>, << "w", "e", "r", "e", " ", "n", "o", "t" >> >>   \* weren't -> were not
   >>

(* ------------------------------------------------------------------ *)
(* normalize_text                                                      *)
(* ------------------------------------------------------------------ *)

\* re.sub(r'[^\w\s]', ' ', text)
sub_special(text) ==
    [i \in DOMAIN text |->
        IF IsWordChar(text[i]) \/ IsSpace(text[i]) THEN text[i] ELSE " "]

\* for contraction, expansion in contractions.items():
\*     text = text.replace(contraction, expansion)
\* from table entry n on (replace changes a text only where the contraction
\* occurs in it)
RECURSIVE expand_contractions(_, _)
expand_contractions(text, n) ==
    IF n > Len(contractions) THEN text
    ELSE IF Contains(text, contractions[n][1])
    THEN expand_contractions(
             replace(text, contractions[n][1], contractions[n][2]), n + 1)
    ELSE expand_contractions(text, n + 1)

\* normalize_text without ' '.join(text.split()) of line 137
normalize_text_without_join(text) ==
    expand_contractions(sub_special(strip(lower(text))), 1)

\* normalize_text without the re.sub of line 134
normalize_text_keep_punctuation(text) ==
    expand_contractions(join(split(strip(lower(text)))), 1)

\* normalize_text without the call of lower()
normalize_text_keep_case(text) ==
    expand_contractions(join(split(sub_special(strip(text)))), 1)

normalize_text(text) ==
    expand_contractions(join(split(sub_special(strip(lower(text))))), 1)

(* ------------------------------------------------------------------ *)
(* calculate_intent_score                                              *)
(* ------------------------------------------------------------------ *)

\* keyword_score without the tests on the lengths of line 211
keyword_score_any_length(user_words, keyword) ==
    IF keyword \in user_words THEN 100
    ELSE MaxOf({0} \cup { ratio(w, keyword) : w \in user_words })

\* the value the first loop appends for one keyword
keyword_score(user_words, keyword) ==
    IF keyword \in user_words THEN 100
    ELSE MaxOf({0} \cup { ratio(w, keyword) :
                            w \in { u \in user_words :
                                      Len(u) > 2 /\ Len(keyword) > 2 } })

calculate_intent_score(user_msg, intent_keywords) ==
    LET user_words == Range(split(user_msg))
        scores == { keyword_score(user_words, intent_keywords[n]) :
                      n \in DOMAIN intent_keywords }
                  \cup
                  { partial_ratio(user_msg, intent_keywords[n]) :
                      n \in { m \in DOMAIN intent_keywords :
                                Len(split(intent_keywords[m])) > 1 } }
    IN  IF scores = {} THEN 0 ELSE MaxOf(scores)

(* ------------------------------------------------------------------ *)
(* detect_intent                                                       *)
(* ------------------------------------------------------------------ *)

\* keyword_override with the substring rule for keywords longer than 4
keyword_override_longer(score, keywords, normalized_msg) ==
    MaxOf({ score }
          \cup { 100 : n \in { m \in DOMAIN keywords :
                    Contains(<< " " >> \o normalized_msg \o << " " >>,
                             << " " >> \o keywords[m] \o << " " >>) } }
          \cup { 90 : n \in { m \in DOMAIN keywords :
                    /\ Len(keywords[m]) > 4
                    /\ Contains(normalized_msg, keywords[m]) } })

\* what the inner loop over the keywords of one intent makes of the score:
\* max(score, 100) for a keyword that is a whole word or phrase of the text,
\* max(score, 90) for any other keyword longer than 3 that is a substring
keyword_override(score, keywords, normalized_msg) ==
    MaxOf({ score }
          \cup { 100 : n \in { m \in DOMAIN keywords :
                    Contains(<< " " >> \o normalized_msg \o << " " >>,
                             << " " >> \o keywords[m] \o << " " >>) } }
          \cup { 90 : n \in { m \in DOMAIN keywords :
                    /\ ~Contains(<< " " >> \o normalized_msg \o << " " >>,
                                 << " " >> \o keywords[m] \o << " " >>)
                    /\ Len(keywords[m]) > 3
                    /\ Contains(normalized_msg, keywords[m]) } })

\* one iteration of the loop over INTENT_KEYWORDS.items()
intent_score(intent, normalized_msg) ==
    keyword_override(
        calculate_intent_score(normalized_msg, INTENT_KEYWORDS[intent]),
        INTENT_KEYWORDS[intent], normalized_msg)

\* hours_words without "open"
hours_words_without_open == << << "c","l","o","s","e" >>,
                               << "t","i","m","i","n","g" >>,
                               << "h","o","u","r" >> >>

hours_words == << << "o","p","e","n" >>, << "c","l","o","s","e" >>,
                  << "t","i","m","i","n","g" >>, << "h","o","u","r" >> >>

\* best_intent taking the last key that has the greatest value
best_intent_last(intent_scores) ==
    LET top == MaxOf({ intent_scores[i] : i \in DOMAIN intent_scores })
        n   == CHOOSE k \in DOMAIN Intents :
                  /\ intent_scores[Intents[k]] = top
                  /\ \A j \in (k + 1)..Len(Intents) : intent_scores[Intents[j]] # top
    IN  Intents[n]

\* max(intent_scores, key=intent_scores.get): the first key in dictionary
\* order that has the greatest value
best_intent(intent_scores) ==
    LET top == MaxOf({ intent_scores[i] : i \in DOMAIN intent_scores })
        n   == CHOOSE k \in DOMAIN Intents :
                  /\ intent_scores[Intents[k]] = top
                  /\ \A j \in 1..(k - 1) : intent_scores[Intents[j]] # top
    IN  Intents[n]

\* the conditions under which each return statement of the chain of if
\* statements is executed once control reaches it
rule_greeting(intent_scores) == intent_scores["greeting"] > 80

rule_farewell(intent_scores) == intent_scores["farewell"] > 80

\* rule_branch falling through on equal scores too
rule_branch_ge(intent_scores) ==
    /\ intent_scores["branch_query"] > 70
    /\ ~(intent_scores["menu_query"] >= intent_scores["branch_query"])

rule_branch(intent_scores) ==
    /\ intent_scores["branch_query"] > 70
    /\ ~(intent_scores["menu_query"] > intent_scores["branch_query"])

\* rule_faq giving way to a high menu score, as rule_about does
rule_faq_unless_menu(intent_scores) ==
    intent_scores["faq_query"] > 70 /\ intent_scores["menu_query"] < 60

rule_faq(intent_scores) == intent_scores["faq_query"] > 70

\* has_hours_word with "time" among the words
has_hours_word_or_time(normalized_msg) ==
    \/ \E n \in DOMAIN hours_words : Contains(normalized_msg, hours_words[n])
    \/ Contains(normalized_msg, << "t", "i", "m", "e" >>)

\* any(w in normalized_msg for w in ["open", "close", "timing", "hour"])
has_hours_word(normalized_msg) ==
    \E n \in DOMAIN hours_words : Contains(normalized_msg, hours_words[n])

\* rule_hours without the disambiguation against the menu score
rule_hours_always(intent_scores, normalized_msg) ==
    intent_scores["hours_query"] > 70

rule_hours(intent_scores, normalized_msg) ==
    /\ intent_scores["hours_query"] > 70
    /\ IF intent_scores["menu_query"] > 70
       THEN has_hours_word(normalized_msg)
       ELSE TRUE

\* rule_about with the menu bound included
rule_about_le(intent_scores) ==
    intent_scores["about"] > 70 /\ intent_scores["menu_query"] <= 60

rule_about(intent_scores) ==
    intent_scores["about"] > 70 /\ intent_scores["menu_query"] < 60

\* rule_menu with the threshold included
rule_menu_ge(intent_scores) == intent_scores["menu_query"] >= 50

rule_menu(intent_scores) == intent_scores["menu_query"] > 50

\* max_score = max(intent_scores.values()); if max_score > 50
rule_best(intent_scores) ==
    MaxOf({ intent_scores[i] : i \in DOMAIN intent_scores }) > 50

\* rule_short for a text of any length
rule_short_any_length(normalized_msg) == Len(split(normalized_msg)) >= 0

\* rule_short with the limit excluded
rule_short_lt(normalized_msg) == Len(split(normalized_msg)) < 4

rule_short(normalized_msg) == Len(split(normalized_msg)) <= 4

\* decide with the farewell test ahead of the greeting test
decide_farewell_first(intent_scores, normalized_msg) ==
    IF rule_farewell(intent_scores)
    THEN [intent |-> "farewell", line |-> 330]
    ELSE IF rule_greeting(intent_scores)
    THEN [intent |-> "greeting", line |-> 326]
    ELSE IF rule_branch(intent_scores)
    THEN [intent |-> "branch_query", line |-> 338]
    ELSE IF rule_faq(intent_scores)
    THEN [intent |-> "faq_query", line |-> 342]
    ELSE IF rule_hours(intent_scores, normalized_msg)
    THEN [intent |-> "hours_query",
          line |-> IF intent_scores["menu_query"] > 70 THEN 352 ELSE 354]
    ELSE IF rule_about(intent_scores)
    THEN [intent |-> "about", line |-> 358]
    ELSE IF rule_menu(intent_scores)
    THEN [intent |-> "menu_query", line |-> 362]
    ELSE IF rule_best(intent_scores)
    THEN [intent |-> best_intent(intent_scores), line |-> 368]
    ELSE IF rule_short(normalized_msg)
    THEN [intent |-> "menu_query", line |-> 372]
    ELSE [intent |-> "unknown", line |-> 374]

\* decide without its last return statement: the function ends and gives None
decide_without_last_return(intent_scores, normalized_msg) ==
    IF rule_greeting(intent_scores)
    THEN [intent |-> "greeting", line |-> 326]
    ELSE IF rule_farewell(intent_scores)
    THEN [intent |-> "farewell", line |-> 330]
    ELSE IF rule_branch(intent_scores)
    THEN [intent |-> "branch_query", line |-> 338]
    ELSE IF rule_faq(intent_scores)
    THEN [intent |-> "faq_query", line |-> 342]
    ELSE IF rule_hours(intent_scores, normalized_msg)
    THEN [intent |-> "hours_query",
          line |-> IF intent_scores["menu_query"] > 70 THEN 352 ELSE 354]
    ELSE IF rule_about(intent_scores)
    THEN [intent |-> "about", line |-> 358]
    ELSE IF rule_menu(intent_scores)
    THEN [intent |-> "menu_query", line |-> 362]
    ELSE IF rule_best(intent_scores)
    THEN [intent |-> best_intent(intent_scores), line |-> 368]
    ELSE IF rule_short(normalized_msg)
    THEN [intent |-> "menu_query", line |-> 372]
    ELSE [intent |-> "None", line |-> 374]

\* the chain of if statements after the scoring loop: the label returned and
\* the source line of the return statement that returns it
decide(intent_scores, normalized_msg) ==
    IF rule_greeting(intent_scores)
    THEN [intent |-> "greeting", line |-> 326]
    ELSE IF rule_farewell(intent_scores)
    THEN [intent |-> "farewell", line |-> 330]
    ELSE IF rule_branch(intent_scores)
    THEN [intent |-> "branch_query", line |-> 338]
    ELSE IF rule_faq(intent_scores)
    THEN [intent |-> "faq_query", line |-> 342]
    ELSE IF rule_hours(intent_scores, normalized_msg)
    THEN [intent |-> "hours_query",
          line |-> IF intent_scores["menu_query"] > 70 THEN 352 ELSE 354]
    ELSE IF rule_about(intent_scores)
    THEN [intent |-> "about", line |-> 358]
    ELSE IF rule_menu(intent_scores)
    THEN [intent |-> "menu_query", line |-> 362]
    ELSE IF rule_best(intent_scores)
    THEN [intent |-> best_intent(intent_scores), line |-> 368]
    ELSE IF rule_short(normalized_msg)
    THEN [intent |-> "menu_query", line |-> 372]
    ELSE [intent |-> "unknown", line |-> 374]

\* detect_intent as a function of its argument
detect_intent(user_msg) ==
    LET normalized_msg == normalize_text(user_msg)
        intent_scores == [i \in Range(Intents) |-> intent_score(i, normalized_msg)]
    IN  decide(intent_scores, normalized_msg).intent

(* ------------------------------------------------------------------ *)
(* The utterances the model classifies                                 *)
(* ------------------------------------------------------------------ *)

\* phrases an utterance is put together from: keywords of the intents, words
\* that only come near a keyword ("nearby", "decribe", "pao", "water"),
\* words that match nothing, punctuation and white space
Vocabulary == <<
    << "H", "i" >>,
    << "B", "y", "e", "," >>,
    << "b", "r", "a", "n", "c", "h" >>,
    << "n", "e", "a", "r", "b", "y" >>,
    << "p", "a", "r", "k", "i", "n", "g", "?" >>,
    << "t", "i", "m", "e" >>,
    << "o", "p", "e", "n" >>,
    << "a", "b", "o", "u", "t" >>,
    << "d", "e", "c", "r", "i", "b", "e" >>,
    << "m", "e", "n", "u" >>,
    << "p", "a", "o" >>,
    << "w", "a", "t", "e", "r" >>,
    << "z", "z" >>,
    << "q", "q", " ", " ", "q", "q", "\t", "q", "q", " ", "q", "q" >>,
    << "?", "!" >>,
    << "\t" >>
   >>

\* whole utterances: "Hi there!", "Bye, thanks!", "what time do you open",
\* "do you have vegetarian options"
Examples == <<
    << "H", "i", " ", "t", "h", "e", "r", "e", "!" >>,
    << "B", "y", "e", ",", " ", "t", "h", "a", "n", "k", "s", "!" >>,
    << "w", "h", "a", "t", " ", "t", "i", "m", "e", " ", "d", "o", " ",
       "y", "o", "u", " ", "o", "p", "e", "n" >>,
    << "d", "o", " ", "y", "o", "u", " ", "h", "a", "v", "e", " ",
       "v", "e", "g", "e", "t", "a", "r", "i", "a", "n", " ",
       "o", "p", "t", "i", "o", "n", "s" >>
   >>

\* an utterance is made of at most MaxPhrases phrases
MaxPhrases == 2

\* the phrases numbered in S, in vocabulary order
RECURSIVE PhrasesOf(_)
PhrasesOf(S) ==
    IF S = {} THEN << >>
    ELSE LET m == CHOOSE i \in S : \A j \in S : i <= j
         IN  << Vocabulary[m] >> \o PhrasesOf(S \ {m})

Inputs ==
    { join(PhrasesOf(S)) :
        S \in { T \in SUBSET DOMAIN Vocabulary : Cardinality(T) <= MaxPhrases } }
    \cup Range(Examples)

(* ------------------------------------------------------------------ *)
(* The values json.load gives: the catalog and the FAQ list            *)
(* ------------------------------------------------------------------ *)

\* a value with its type: a str by its characters, an int by its digits,
\* a list by its elements, a dict by its keys and their values
Str(t) == [type |-> "str", val |-> t]

Integer(digits) == [type |-> "int", val |-> digits]

None == [type |-> "NoneType", val |-> << "N", "o", "n", "e" >>]

List(elems) == [type |-> "list", elems |-> elems]

Dict(fields) == [type |-> "dict", fields |-> fields]

\* an exception that leaves the function
Raised(exception) == [type |-> "raise", val |-> exception]

isinstance(v, type) == v.type = type

\* key in d
HasKey(d, key) == key \in DOMAIN d.fields

\* d.get(key, default)
get(d, key, default) == IF HasKey(d, key) THEN d.fields[key] ELSE default

\* whether hash(v) succeeds, which a key of a dict needs
hashable(v) == v.type \notin { "list", "dict" }

\* bool(v)
truthy(v) ==
    CASE v.type = "str" -> v.val # << >>
      [] v.type = "int" -> v.val # << "0" >>
      [] v.type = "NoneType" -> FALSE
      [] v.type = "list" -> v.elems # << >>
      [] v.type = "dict" -> DOMAIN v.fields # {}

\* repr(v) of a str without quotes or backslashes, an int, None, or a list
\* of such values
RECURSIVE repr(_)
repr(v) ==
    CASE v.type = "str" -> << "'" >> \o v.val \o << "'" >>
      [] v.type \in { "int", "NoneType" } -> v.val
      [] v.type = "list" ->
            LET RECURSIVE inner(_)
                inner(n) ==
                    IF n > Len(v.elems) THEN << >>
                    ELSE (IF n = 1 THEN << >> ELSE << ",", " " >>)
                         \o repr(v.elems[n]) \o inner(n + 1)
            IN  << "[" >> \o inner(1) \o << "]" >>

\* f"{v}": str(v)
format(v) == IF v.type = "str" THEN v.val ELSE repr(v)

\* the concatenation of a sequence of sequences
RECURSIVE Flatten(_)
Flatten(seqs) ==
    IF seqs = << >> THEN << >> ELSE Head(seqs) \o Flatten(Tail(seqs))

(* ------------------------------------------------------------------ *)
(* search_menu                                                         *)
(* ------------------------------------------------------------------ *)

\* what one variant adds: f"{v['size']} {item['name']}" for a dict that has
\* a size
variant_pairs(v, name) ==
    IF isinstance(v, "dict") /\ HasKey(v, "size")
    THEN << << Str(format(v.fields["size"]) \o << " " >> \o format(name)),
               name >> >>
    ELSE << >>

\* what one flavour adds: f"{flavour} {item['name']}" and the flavour alone,
\* for a dict that has a name and for a str
flavour_pairs(f, name) ==
    IF isinstance(f, "dict") /\ HasKey(f, "name")
    THEN << << Str(format(f.fields["name"]) \o << " " >> \o format(name)),
               name >>,
            << f.fields["name"], name >> >>
    ELSE IF isinstance(f, "str")
    THEN << << Str(f.val \o << " " >> \o format(name)), name >>,
            << f, name >> >>
    ELSE << >>

\* the pairs << search string, item["name"] >> one item adds to all_items
\* and item_map, in the order of the appends
item_pairs(item) ==
    LET name == item.fields["name"]
        description ==
            IF HasKey(item, "description") /\ truthy(item.fields["description"])
            THEN << << item.fields["description"], name >> >>
            ELSE << >>
        variants ==
            IF HasKey(item, "variants")
               /\ isinstance(item.fields["variants"], "list")
            THEN LET vs == item.fields["variants"].elems
                 IN  Flatten([n \in DOMAIN vs |-> variant_pairs(vs[n], name)])
            ELSE << >>
        flavours ==
            IF HasKey(item, "flavours")
               /\ isinstance(item.fields["flavours"], "list")
            THEN LET fs == item.fields["flavours"].elems
                 IN  Flatten([n \in DOMAIN fs |-> flavour_pairs(fs[n], name)])
            ELSE << >>
    IN  << << name, name >> >> \o description \o variants \o flavours

\* category_pairs taking an entry that is a str for an item of that name
category_pairs_any_entry(items) ==
    IF ~isinstance(items, "list") THEN << >>
    ELSE Flatten([n \in DOMAIN items.elems |->
            LET item == items.elems[n]
            IN  IF isinstance(item, "str") THEN << << item, item >> >>
                ELSE IF ~isinstance(item, "dict") \/ ~HasKey(item, "name")
                THEN << >>
                ELSE item_pairs(item)])

\* the pairs of one category: a value that is not a list adds nothing, nor
\* does an entry that is not a dict or has no key "name"
category_pairs(items) ==
    IF ~isinstance(items, "list") THEN << >>
    ELSE Flatten([n \in DOMAIN items.elems |->
            LET item == items.elems[n]
            IN  IF ~isinstance(item, "dict") \/ ~HasKey(item, "name")
                THEN << >>
                ELSE item_pairs(item)])

\* the pairs of the catalog, category after category; menu_data is given by
\* the values of its keys, in the order of menu_data.items()
corpus_pairs(catalog) ==
    Flatten([c \in DOMAIN catalog |-> category_pairs(catalog[c])])

\* the list all_items when the loops end
all_items(catalog) ==
    LET pairs == corpus_pairs(catalog)
    IN  [n \in DOMAIN pairs |-> pairs[n][1]]

\* item_map_get with the first pair of a search string kept
item_map_get_first(catalog, match) ==
    LET pairs == corpus_pairs(catalog)
        at == { n \in DOMAIN pairs : pairs[n][1] = match }
    IN  IF at = {} THEN None
        ELSE pairs[CHOOSE n \in at : \A m \in at : n <= m][2]

\* item_map.get(match): an assignment to a key the dictionary has already
\* replaces the value, so the last pair of a search string is the one kept
item_map_get(catalog, match) ==
    LET pairs == corpus_pairs(catalog)
        at == { n \in DOMAIN pairs : pairs[n][1] = match }
    IN  IF at = {} THEN None ELSE pairs[MaxOf(at)][2]

\* an assignment item_map[key] = ... raises TypeError for a key that cannot
\* be hashed; the assignments are outside the try statement
item_map_raises(catalog) ==
    LET choices == all_items(catalog)
    IN  \E n \in DOMAIN choices : ~hashable(choices[n])

\* process.extractOne(user_msg, all_items) is the library's: it gives one of
\* the choices and its ratio in 0..100, the greatest of the ratios of the
\* choices.  The model takes what it gives as an input: not called, raised
\* an exception, or a choice and a ratio.
NotCalled == [called |-> FALSE, raised |-> FALSE, match |-> None, ratio |-> 0]

\* search_menu with the threshold excluded
search_menu_above_threshold(catalog, extract) ==
    IF item_map_raises(catalog) THEN Raised("TypeError")
    ELSE IF all_items(catalog) = << >> THEN None
    ELSE IF extract.raised THEN None
    ELSE IF extract.ratio > 60 THEN item_map_get(catalog, extract.match)
    ELSE None

\* search_menu(user_msg, menu_data), given what extractOne gives
search_menu(catalog, extract) ==
    IF item_map_raises(catalog) THEN Raised("TypeError")
    ELSE IF all_items(catalog) = << >> THEN None
    ELSE IF extract.raised THEN None
    ELSE IF extract.ratio >= 60 THEN item_map_get(catalog, extract.match)
    ELSE None

(* ------------------------------------------------------------------ *)
(* get_bot_response: the branch of the intent faq_query                *)
(* ------------------------------------------------------------------ *)

NoFaqMessage == Str(
    << "S", "o", "r", "r", "y", ",", " ", "I", " ", "d", "o", "n", "'",
       "t", " ", "h", "a", "v", "e", " ", "F", "A", "Q", " ", "i", "n",
       "f", "o", "r", "m", "a", "t", "i", "o", "n", " ", "a", "v", "a",
       "i", "l", "a", "b", "l", "e", "." >>)

NoAnswerMessage == Str(
    << "S", "o", "r", "r", "y", ",", " ", "I", " ", "d", "o", "n", "'",
       "t", " ", "h", "a", "v", "e", " ", "a", "n", " ", "a", "n", "s",
       "w", "e", "r", " ", "f", "o", "r", " ", "t", "h", "a", "t", ".",
       " ", "Y", "o", "u", " ", "c", "a", "n", " ", "a", "s", "k", " ",
       "a", "b", "o", "u", "t", " ", "d", "e", "l", "i", "v", "e", "r",
       "y", ",", " ", "v", "e", "g", "e", "t", "a", "r", "i", "a", "n",
       " ", "o", "p", "t", "i", "o", "n", "s", ",", " ", "h", "a", "l",
       "a", "l", " ", "f", "o", "o", "d", ",", " ", "o", "r", " ", "o",
       "u", "r", " ", "s", "e", "r", "v", "i", "c", "e", "s", "." >>)

\* fuzz.token_set_ratio(user_lower, question.lower()) is the library's; the
\* model takes its values from a table keyed by the lower-cased question.
\* An empty question has the ratio 0.
token_set_ratio(ratios, question) ==
    IF question = << >> THEN 0 ELSE ratios[question]

\* the question of entry q: q.get("question", "")
question_of(q) == get(q, "question", Str(<< >>))

\* question.lower() raises AttributeError for a question that is not a str
lower_raises(faq) ==
    \E n \in DOMAIN faq :
        /\ isinstance(faq[n], "dict")
        /\ ~isinstance(question_of(faq[n]), "str")

\* the loop over faqs from entry n on: best_score and best_match when it
\* ends
RECURSIVE faq_loop(_, _, _, _)
faq_loop(faq, ratios, n, best) ==
    IF n > Len(faq) THEN best
    ELSE IF ~isinstance(faq[n], "dict")
    THEN faq_loop(faq, ratios, n + 1, best)
    ELSE LET found == token_set_ratio(ratios, lower(question_of(faq[n]).val))
         IN  faq_loop(faq, ratios, n + 1,
                 IF found > best.best_score
                 THEN [best_score |-> found,
                       best_match |-> get(faq[n], "answer", Str(<< >>))]
                 ELSE best)

\* faq_response with the threshold included
faq_response_from_threshold(faq, ratios) ==
    IF faq = << >> THEN NoFaqMessage
    ELSE IF lower_raises(faq) THEN Raised("AttributeError")
    ELSE LET best == faq_loop(faq, ratios, 1,
                         [best_score |-> 0, best_match |-> None])
         IN  IF best.best_score >= 60 THEN best.best_match
             ELSE NoAnswerMessage

\* what get_bot_response returns for the intent faq_query; faq is the list
\* data.get("faq", [])
faq_response(faq, ratios) ==
    IF faq = << >> THEN NoFaqMessage
    ELSE IF lower_raises(faq) THEN Raised("AttributeError")
    ELSE LET best == faq_loop(faq, ratios, 1,
                         [best_score |-> 0, best_match |-> None])
         IN  IF best.best_score > 60 THEN best.best_match
             ELSE NoAnswerMessage

(* ------------------------------------------------------------------ *)
(* expand_synonyms                                                     *)
(* ------------------------------------------------------------------ *)

\* SYNONYMS in dictionary order: each group by its key and its list
SYNONYMS == <<
    [key |-> "menu", synonyms |-> <<
        << "m", "e", "n", "u" >>,
        << "c", "a", "r", "d" >>,
        << "l", "i", "s", "t" >>,
        << "i", "t", "e", "m", "s" >>,
        << "d", "i", "s", "h", "e", "s" >>,
        << "f", "o", "o", "d" >>,
        << "c", "a", "t", "a", "l", "o", "g" >>,
        << "s", "e", "l", "e", "c", "t", "i", "o", "n" >>
    >>],
    [key |-> "dish", synonyms |-> <<
        << "d", "i", "s", "h" >>,
        << "i", "t", "e", "m" >>,
        << "f", "o", "o", "d" >>,
        << "m", "e", "a", "l" >>,
        << "c", "o", "u", "r", "s", "e" >>,
        << "p", "l", "a", "t", "e" >>
    >>],
    [key |-> "show", synonyms |-> <<
        << "s", "h", "o", "w" >>,
        << "d", "i", "s", "p", "l", "a", "y" >>,
        << "s", "e", "e" >>,
        << "v", "i", "e", "w" >>,
        << "l", "i", "s", "t" >>,
        << "t", "e", "l", "l" >>,
        << "g", "i", "v", "e" >>,
        << "p", "r", "o", "v", "i", "d", "e" >>
    >>],
    [key |-> "what", synonyms |-> <<
        << "w", "h", "a", "t" >>,
        << "w", "h", "i", "c", "h" >>,
        << "t", "e", "l", "l", " ", "m", "e" >>,
        << "i", " ", "w", "a", "n", "t", " ", "t", "o", " ", "k", "n", "o", "w" >>
    >>],
    [key |-> "price", synonyms |-> <<
        << "p", "r", "i", "c", "e" >>,
        << "c", "o", "s", "t" >>,
        << "r", "a", "t", "e" >>,
        << "c", "h", "a", "r", "g", "e" >>,
        << "f", "e", "e" >>,
        << "a", "m", "o", "u", "n", "t" >>,
        << "h", "o", "w", " ", "m", "u", "c", "h" >>
    >>],
    [key |-> "hours", synonyms |-> <<
        << "h", "o", "u", "r", "s" >>,
        << "t", "i", "m", "i", "n", "g" >>,
        << "t", "i", "m", "e" >>,
        << "s", "c", "h", "e", "d", "u", "l", "e" >>,
        << "o", "p", "e", "n" >>,
        << "o", "p", "e", "n", "i", "n", "g" >>,
        << "c", "l", "o", "s", "e" >>,
        << "c", "l", "o", "s", "i", "n", "g" >>
    >>],
    [key |-> "when", synonyms |-> <<
        << "w", "h", "e", "n" >>,
        << "w", "h", "a", "t", " ", "t", "i", "m", "e" >>,
        << "a", "t", " ", "w", "h", "a", "t", " ", "t", "i", "m", "e" >>
    >>],
    [key |-> "open", synonyms |-> <<
        << "o", "p", "e", "n" >>,
        << "o", "p", "e", "n", "s" >>,
        << "o", "p", "e", "n", "i", "n", "g" >>,
        << "a", "v", "a", "i", "l", "a", "b", "l", "e" >>,
        << "o", "p", "e", "r", "a", "t", "i", "o", "n", "a", "l" >>
    >>],
    [key |-> "close", synonyms |-> <<
        << "c", "l", "o", "s", "e" >>,
        << "c", "l", "o", "s", "e", "s" >>,
        << "c", "l", "o", "s", "i", "n", "g" >>,
        << "c", "l", "o", "s", "e", "d" >>
    >>],
    [key |-> "branch", synonyms |-> <<
        << "b", "r", "a", "n", "c", "h" >>,
        << "l", "o", "c", "a", "t", "i", "o", "n" >>,
        << "o", "u", "t", "l", "e", "t" >>,
        << "s", "t", "o", "r", "e" >>,
        << "s", "h", "o", "p" >>,
        << "r", "e", "s", "t", "a", "u", "r", "a", "n", "t" >>
    >>],
    [key |-> "address", synonyms |-> <<
        << "a", "d", "d", "r", "e", "s", "s" >>,
        << "l", "o", "c", "a", "t", "i", "o", "n" >>,
        << "w", "h", "e", "r", "e" >>,
        << "p", "l", "a", "c", "e" >>,
        << "v", "e", "n", "u", "e" >>
    >>],
    [key |-> "phone", synonyms |-> <<
        << "p", "h", "o", "n", "e" >>,
        << "c", "o", "n", "t", "a", "c", "t" >>,
        << "n", "u", "m", "b", "e", "r" >>,
        << "t", "e", "l", "e", "p", "h", "o", "n", "e" >>,
        << "c", "a", "l", "l" >>
    >>],
    [key |-> "have", synonyms |-> <<
        << "h", "a", "v", "e" >>,
        << "s", "e", "r", "v", "e" >>,
        << "o", "f", "f", "e", "r" >>,
        << "p", "r", "o", "v", "i", "d", "e" >>,
        << "s", "e", "l", "l" >>,
        << "a", "v", "a", "i", "l", "a", "b", "l", "e" >>
    >>],
    [key |-> "can", synonyms |-> <<
        << "c", "a", "n" >>,
        << "c", "o", "u", "l", "d" >>,
        << "a", "b", "l", "e" >>,
        << "p", "o", "s", "s", "i", "b", "l", "e" >>
    >>],
    [key |-> "do", synonyms |-> <<
        << "d", "o" >>,
        << "d", "o", "e", "s" >>,
        << "i", "s" >>,
        << "a", "r", "e" >>,
        << "w", "a", "s" >>,
        << "w", "e", "r", "e" >>
    >>]
>>

\* word in synonyms
in_synonyms(word, synonyms) ==
    \E n \in DOMAIN synonyms : synonyms[n] = word

\* expand_word taking the last group that has the word
expand_word_last_group(word, synonym_dict) ==
    LET groups == { k \in DOMAIN synonym_dict :
                      in_synonyms(word, synonym_dict[k].synonyms) }
    IN  IF groups = {} THEN << word >>
        ELSE synonym_dict[MaxOf(groups)].synonyms

\* the inner loop for one word: what is added to expanded_words, the list
\* of the first group that has the word (the loop breaks there), or the
\* word when no group has it
expand_word(word, synonym_dict) ==
    LET groups == { k \in DOMAIN synonym_dict :
                      in_synonyms(word, synonym_dict[k].synonyms) }
    IN  IF groups = {} THEN << word >>
        ELSE synonym_dict[CHOOSE k \in groups : \A j \in groups : k <= j].synonyms

\* expand_synonyms(text, synonym_dict)
expand_synonyms(text, synonym_dict) ==
    LET words == split(text)
    IN  join(Flatten([n \in DOMAIN words |-> expand_word(words[n], synonym_dict)]))

(* ------------------------------------------------------------------ *)
(* get_bot_response                                                    *)
(* ------------------------------------------------------------------ *)

\* the phrases that ask for the whole menu
full_menu_phrases == <<
    << "f", "u", "l", "l", " ", "m", "e", "n", "u" >>,
    << "a", "l", "l", " ", "m", "e", "n", "u" >>,
    << "c", "o", "m", "p", "l", "e", "t", "e", " ", "m", "e", "n", "u" >>,
    << "e", "n", "t", "i", "r", "e", " ", "m", "e", "n", "u" >>,
    << "s", "h", "o", "w", " ", "a", "l", "l" >>,
    << "a", "l", "l", " ", "d", "i", "s", "h", "e", "s" >>,
    << "a", "l", "l", " ", "i", "t", "e", "m", "s" >>
>>

\* wants_full = any(word in user_lower for word in [...])
wants_full(user_lower) ==
    \E n \in DOMAIN full_menu_phrases : Contains(user_lower, full_menu_phrases[n])

\* the items the loops of lines 438-443 reach: the entries of the categories
\* that are lists which are dicts with a key "name"
named_items(catalog) ==
    Flatten([c \in DOMAIN catalog |->
        IF ~isinstance(catalog[c], "list") THEN << >>
        ELSE SelectSeq(catalog[c].elems,
                 LAMBDA item : isinstance(item, "dict") /\ HasKey(item, "name"))])

\* some item has a name that contains match, letter case aside (line 444)
item_shown(catalog, match) ==
    \E n \in DOMAIN named_items(catalog) :
        Contains(lower(named_items(catalog)[n].fields["name"].val),
                 lower(match.val))

\* data_after_response with the menu emptied by the call
data_after_response_clears(data) == [data EXCEPT !.menu = << >>]

\* data_after_response with the categories of the menu removed one by one,
\* as if the call consumed the menu it walks
data_after_response_consumes(data) ==
    [data EXCEPT !.menu = IF data.menu = << >> THEN << >> ELSE Tail(data.menu)]

\* the data snapshot after a call of get_bot_response: no statement of the
\* function assigns to data or to a value reached from it
data_after_response(data) == data

\* about_line with the block falling through to the end of the function
\* when there is no about data
about_line_falls(data) == IF ~truthy(data.about) THEN 598 ELSE 596

\* the return statement the block of the intent about executes
about_line(data) == IF ~truthy(data.about) THEN 586 ELSE 596

\* get_bot_response(user_msg, data) from line 379 on, given the intent that
\* detect_intent returned and what the library scorers give: the source
\* line of the return statement executed and the value of match
get_bot_response(intent, msg, data, extract, ratios) ==
    LET user_lower == strip(lower(msg))
    IN  CASE intent = "greeting" -> [line |-> 382, match |-> None]
          [] intent = "farewell" -> [line |-> 385, match |-> None]
          [] intent = "menu_query" ->
                IF data.menu = << >> THEN [line |-> 392, match |-> None]
                ELSE IF wants_full(user_lower) THEN [line |-> 433, match |-> None]
                ELSE LET match == search_menu(data.menu, extract)
                     IN  IF truthy(match) /\ item_shown(data.menu, match)
                         THEN [line |-> 474, match |-> match]
                         ELSE [line |-> 500, match |-> match]
          [] intent = "branch_query" ->
                [line |-> IF ~truthy(data.branches) THEN 505 ELSE 523,
                 match |-> None]
          [] intent = "hours_query" ->
                [line |-> IF ~truthy(data.hours) THEN 529 ELSE 556,
                 match |-> None]
          [] intent = "faq_query" ->
                [line |-> IF data.faq = << >> THEN 561
                          ELSE IF faq_loop(data.faq, ratios, 1,
                                      [best_score |-> 0, best_match |-> None])
                                  .best_score > 60
                          THEN 579 ELSE 581,
                 match |-> None]
          [] intent = "about" ->
                [line |-> about_line(data), match |-> None]
          [] OTHER -> [line |-> 598, match |-> None]

(* ------------------------------------------------------------------ *)
(* The data snapshot load_data returns                                 *)
(* ------------------------------------------------------------------ *)

\* a menu of two items that share the flavour "Hot"
SmallMenu == <<
    List(<< Dict([name |-> Str(<< "Z", "i", "n", "g", "e", "r" >>), flavours |-> List(<< Str(<< "H", "o", "t" >>) >>)]) >>),
    List(<< Dict([name |-> Str(<< "W", "r", "a", "p" >>), description |-> Str(<< "c", "h", "e", "e", "s", "y" >>),
                  flavours |-> List(<< Str(<< "H", "o", "t" >>) >>)]) >>)
>>

\* the FAQ list of a snapshot
SmallFaq == << Dict([question |-> Str(<< "P", "a", "r", "k", "i", "n", "g", "?" >>), answer |-> Str(<< "y", "e", "s" >>)]),
              Dict([question |-> Str(<< "H", "a", "l", "a", "l", "?" >>),
                    answer |-> Str(<< "y", "e", "s" >>)]) >>

\* what load_data can return: every file with content, every file without,
\* and a menu without the other files
Snapshots == <<
    [menu |-> SmallMenu, faq |-> SmallFaq,
     branches |-> List(<< Dict([name |-> Str(<< "M", "a", "i", "n" >>)]) >>),
     hours |-> List(<< Dict([branch_name |-> Str(<< "M", "a", "i", "n" >>)]) >>),
     about |-> Dict([name |-> Str(<< "B", "i", "t", "e", "s" >>)])],
    [menu |-> << >>, faq |-> << >>, branches |-> List(<< >>),
     hours |-> List(<< >>), about |-> Dict([k \in {} |-> None])],
    [menu |-> SmallMenu, faq |-> << >>, branches |-> List(<< >>),
     hours |-> List(<< >>), about |-> Dict([k \in {} |-> None])]
>>

NoSnapshot == Snapshots[2]

\* what load_data returns at the startup of the application: a menu of one
\* item and no other data
AppSnapshot ==
    [menu |-> << List(<< Dict([name |-> Str(<< "H", "o", "t" >>)]) >>) >>,
     faq |-> << >>, branches |-> List(<< >>), hours |-> List(<< >>),
     about |-> Dict([k \in {} |-> None])]

\* no library scorer has been called
NoScorers == [extract |-> NotCalled, ratios |-> << >>]

\* no call of get_bot_response has returned
NoReply == [line |-> 0, match |-> None]

(* ------------------------------------------------------------------ *)
(* The HTTP handlers of main.py                                        *)
(* ------------------------------------------------------------------ *)

\* the words of lines 72, 75, 78 and 81
greeting_words == << << "h", "i" >>, << "h", "e", "l", "l", "o" >>,
                     << "h", "e", "y" >>, << "g", "r", "e", "e", "t" >>,
                     << "s", "t", "a", "r", "t" >> >>

menu_words == << << "m", "e", "n", "u" >>, << "d", "i", "s", "h" >>,
                 << "f", "o", "o", "d" >>, << "o", "r", "d", "e", "r" >>,
                 << "b", "u", "r", "g", "e", "r" >>,
                 << "p", "i", "z", "z", "a" >> >>

branch_words == << << "b", "r", "a", "n", "c", "h" >>,
                   << "l", "o", "c", "a", "t", "i", "o", "n" >>,
                   << "a", "d", "d", "r", "e", "s", "s" >>,
                   << "w", "h", "e", "r", "e" >> >>

opening_words == << << "o", "p", "e", "n" >>, << "h", "o", "u", "r" >>,
                    << "t", "i", "m", "i", "n", "g" >>,
                    << "c", "l", "o", "s", "e" >>, << "t", "i", "m", "e" >> >>

\* any(word in msg_lower for word in words)
any_in(msg_lower, words) ==
    \E n \in DOMAIN words : Contains(msg_lower, words[n])

\* the list actions of api_query (lines 68-82)
actions_for(message) ==
    LET msg_lower == lower(message)
    IN  IF any_in(msg_lower, greeting_words)
        THEN << "View Menu", "Our Branches", "Opening Hours" >>
        ELSE IF any_in(msg_lower, menu_words)
        THEN << "Full Menu", "Our Branches", "Order Online" >>
        ELSE IF any_in(msg_lower, branch_words)
        THEN << "View Menu", "Opening Hours", "Contact" >>
        ELSE IF any_in(msg_lower, opening_words)
        THEN << "View Menu", "Our Branches" >>
        ELSE << >>

\* the guard of lines 47 and 62 with the test left out
data_is_none_never(data) == FALSE

\* data is None (lines 47 and 62), data being the local of the handler
data_is_none(data) == data = "None"

\* the return statement of the handler when data is None, which returns
\* "Service starting up, please try again in a moment."
starting_up_line(endpoint) == IF endpoint = "/chat" THEN 48 ELSE 63

\* the return statement of the handler after get_bot_response
response_line(endpoint) == IF endpoint = "/chat" THEN 51 ELSE 85

\* the worker threads that run the handlers
MaxRequests == 2

\* a worker thread without a request
NoRequest == [pc |-> "free", endpoint |-> "", message |-> << >>,
              data |-> "unset", intent |-> "none", scorers |-> NoScorers,
              reply |-> NoReply, bot_called |-> FALSE, line |-> 0,
              actions |-> << >>]

(* ------------------------------------------------------------------ *)
(* One call of detect_intent at a time                                 *)
(* ------------------------------------------------------------------ *)

VARIABLES
    pc,              \* "idle", "scoring", "deciding" or "returned"
    user_msg,        \* the argument of the call
    normalized_msg,  \* the local normalized_msg
    intent_scores,   \* the local dictionary intent_scores
    result,          \* the value returned
    ret_line,        \* the source line of the return statement executed
    raw_text,        \* the argument of a call of normalize_text
    normalized,      \* the value that call returned
    score_msg,       \* calculate_intent_score: the argument user_msg
    score_keywords,  \* calculate_intent_score: the argument intent_keywords
    score,           \* the value that call returned
    menu_data,       \* search_menu: the argument menu_data
    extracted,       \* what process.extractOne gave that call
    menu_item,       \* the value that call returned, or what it raised
    faqs,            \* the FAQ branch: the list faqs
    faq_ratios,      \* the ratios token_set_ratio gives for the questions
    faq_answer,      \* what the branch returned, or what it raised
    syn_text,        \* expand_synonyms: the argument text
    expanded,        \* the value that call returned
    keyword_table,   \* the module's dictionary INTENT_KEYWORDS
    synonym_table,   \* the module's dictionary SYNONYMS
    snapshot,        \* the data snapshot passed to get_bot_response
    bot_msg,         \* get_bot_response: the argument user_msg
    bot_intent,      \* the local intent
    bot_scorers,     \* what extractOne and token_set_ratio gave in the call
    bot_reply,       \* the return statement executed and the local match
    startup,         \* main.py: how far startup_event has come
    app_state_data,  \* whether app.state has the attribute data
    loaded_data,     \* the value load_data returned
    requests         \* the locals of chat and api_query in each worker thread

intent_vars == << user_msg, normalized_msg, intent_scores, result, ret_line >>

norm_vars == << raw_text, normalized >>

score_vars == << score_msg, score_keywords, score >>

menu_vars == << menu_data, extracted, menu_item >>

faq_vars == << faqs, faq_ratios, faq_answer >>

syn_vars == << syn_text, expanded >>

bot_vars == << keyword_table, synonym_table, snapshot, bot_msg, bot_intent,
              bot_scorers, bot_reply >>

app_vars == << startup, app_state_data, loaded_data, requests >>

vars == << pc, intent_vars, norm_vars, score_vars, menu_vars, faq_vars,
           syn_vars, bot_vars, app_vars >>

\* what a call of detect_intent, of normalize_text, of
\* calculate_intent_score, of search_menu, the FAQ branch and a call of
\* expand_synonyms leave alone
not_intent_vars == << norm_vars, score_vars, menu_vars, faq_vars, syn_vars,
                      bot_vars, app_vars >>

not_norm_vars == << intent_vars, score_vars, menu_vars, faq_vars, syn_vars,
                    bot_vars, app_vars >>

not_score_vars == << intent_vars, norm_vars, menu_vars, faq_vars, syn_vars,
                     bot_vars, app_vars >>

not_menu_vars == << intent_vars, norm_vars, score_vars, faq_vars, syn_vars,
                    bot_vars, app_vars >>

not_faq_vars == << intent_vars, norm_vars, score_vars, menu_vars, syn_vars,
                   bot_vars, app_vars >>

not_bot_vars == << intent_vars, norm_vars, score_vars, menu_vars, faq_vars,
                  syn_vars >>

not_syn_vars == << intent_vars, norm_vars, score_vars, menu_vars, faq_vars,
                   bot_vars, app_vars >>

NoScores == [i \in {} |-> 0]

Init ==
    /\ pc = "idle"
    /\ user_msg = << >>
    /\ normalized_msg = << >>
    /\ intent_scores = NoScores
    /\ result = "none"
    /\ ret_line = 0
    /\ raw_text = << >>
    /\ normalized = << >>
    /\ score_msg = << >>
    /\ score_keywords = << >>
    /\ score = 0
    /\ menu_data = << >>
    /\ extracted = NotCalled
    /\ menu_item = None
    /\ faqs = << >>
    /\ faq_ratios = NoScores
    /\ faq_answer = None
    /\ syn_text = << >>
    /\ expanded = << >>
    /\ keyword_table = INTENT_KEYWORDS
    /\ synonym_table = SYNONYMS
    /\ snapshot = NoSnapshot
    /\ bot_msg = << >>
    /\ bot_intent = "none"
    /\ bot_scorers = NoScorers
    /\ bot_reply = NoReply
    /\ startup = "pending"
    /\ app_state_data = "absent"
    /\ loaded_data = NoSnapshot
    /\ requests = [w \in 1 .. MaxRequests |-> NoRequest]

\* detect_intent(msg) is called: normalized_msg = normalize_text(user_msg),
\* intent_scores = {}
Call(msg) ==
    /\ pc = "idle"
    /\ user_msg' = msg
    /\ normalized_msg' = normalize_text(msg)
    /\ intent_scores' = NoScores
    /\ pc' = "scoring"
    /\ UNCHANGED << result, ret_line >>
    /\ UNCHANGED not_intent_vars

\* one iteration of: for intent, keywords in INTENT_KEYWORDS.items()
ScoreIntent ==
    /\ pc = "scoring"
    /\ LET n == Cardinality(DOMAIN intent_scores) + 1
           intent == Intents[n]
       IN  /\ intent_scores' =
                 [i \in DOMAIN intent_scores \cup { intent } |->
                     IF i = intent THEN intent_score(intent, normalized_msg)
                     ELSE intent_scores[i]]
           /\ pc' = IF n = Len(Intents) THEN "deciding" ELSE "scoring"
    /\ UNCHANGED << user_msg, normalized_msg, result, ret_line >>
    /\ UNCHANGED not_intent_vars

\* the chain of if statements, up to the return statement it reaches
Decide ==
    /\ pc = "deciding"
    /\ LET d == decide(intent_scores, normalized_msg)
       IN  result' = d.intent /\ ret_line' = d.line
    /\ pc' = "returned"
    /\ UNCHANGED << user_msg, normalized_msg, intent_scores >>
    /\ UNCHANGED not_intent_vars

\* the caller takes the result; the locals of the call are gone
Return ==
    /\ pc = "returned"
    /\ pc' = "idle"
    /\ user_msg' = << >>
    /\ normalized_msg' = << >>
    /\ intent_scores' = NoScores
    /\ result' = "none"
    /\ ret_line' = 0
    /\ UNCHANGED not_intent_vars

Next ==
    \/ \E msg \in Inputs : Call(msg)
    \/ ScoreIntent
    \/ Decide
    \/ Return

Spec == Init /\ [][Next]_vars

\* weak fairness of the loop step: ScoreIntent is enabled exactly when
\* pc = "scoring" and each of its steps adds a key to intent_scores, so this
\* is WF_vars(ScoreIntent) with ENABLED <<ScoreIntent>>_vars written out
ScoreIntentFair == []<>(pc # "scoring") \/ []<><<ScoreIntent>>_vars

\* a call that has started keeps executing: the interpreter runs the loop
\* and the chain of if statements without being suspended
SpecLive == Spec /\ ScoreIntentFair /\ WF_vars(Decide)

(* ------------------------------------------------------------------ *)
(* Calls of normalize_text                                             *)
(* ------------------------------------------------------------------ *)

\* the characters the short arguments are written with: a letter of each
\* case, a digit, the underscore, punctuation, white space, and the two
\* letters outside ASCII
NormAlphabet == << "A", "b", "7", "_", "?", "'", " ", "\t",
                   "U+4E2D", "U+1D400" >>

MaxTextLen == 3

\* every text of at most MaxTextLen characters of NormAlphabet
ShortTexts == UNION { [1..n -> Range(NormAlphabet)] : n \in 0..MaxTextLen }

\* texts with and without the contractions of the table
ContractionTexts == <<
    << "W", "h", "a", "t", "'", "s", " ", "u", "p", "?" >>,
    << "D", "o", "n", "'", "t" >>,
    << "I", "'", "m", " ", " ", "h", "e", "r", "e" >>,
    << "y", "o", "u", "'", "r", "e" >>,
    << "i", "s", "n", "'", "t", " ", "i", "t" >>,
    << "w", "h", "a", "t", "s" >>,
    << "d", "o", "n", "t" >>
>>

NormInputs == ShortTexts \cup Range(ContractionTexts)

\* normalize_text(t) is called and returns
NormalizeText(t) ==
    /\ pc = "idle"
    /\ raw_text' = t
    /\ normalized' = normalize_text(t)
    /\ pc' = "normalized"
    /\ UNCHANGED not_norm_vars

\* the caller takes the value
NormalizeReturn ==
    /\ pc = "normalized"
    /\ pc' = "idle"
    /\ raw_text' = << >>
    /\ normalized' = << >>
    /\ UNCHANGED not_norm_vars

NextNormalize ==
    \/ \E t \in NormInputs : NormalizeText(t)
    \/ NormalizeReturn

SpecNormalize == Init /\ [][NextNormalize]_vars

(* ------------------------------------------------------------------ *)
(* Calls of calculate_intent_score                                     *)
(* ------------------------------------------------------------------ *)

\* keywords of 2, 3 and 4 characters and one of two words
KeywordPool == <<
    << "h", "i" >>,
    << "h", "e", "y" >>,
    << "m", "e", "n", "u" >>,
    << "g", "o", "o", "d", " ", "m", "o", "r", "n", "i", "n", "g" >>,
    << "a", "b" >>
>>

MaxKeywords == 2

\* the lists of at most MaxKeywords keywords, in the order of KeywordPool
KeywordLists ==
    { [n \in 1..Cardinality(S) |->
          KeywordPool[CHOOSE i \in S : Cardinality({ j \in S : j < i }) = n - 1]] :
      S \in { T \in SUBSET DOMAIN KeywordPool : Cardinality(T) <= MaxKeywords } }

\* texts with tokens of 2, 3 and more characters, equal and close to keywords
ScoreTexts == <<
    <<  >>,
    << "h", "i" >>,
    << "h", "e" >>,
    << "h", "e", "x" >>,
    << "h", "e", "y" >>,
    << "h", "i", "t", " ", "m", "e", "n", "u" >>,
    << "m", "e", "n" >>,
    << "a", "b", " ", "a", "b", "c" >>,
    << "g", "o", "o", "d" >>,
    << "g", "o", "o", "d", " ", "m", "o", "r", "n", "i", "n" >>,
    << "g", "o", "o", "d", " ", "m", "o", "r", "n", "i", "n", "g" >>,
    << "m", "o", "r", "n", "i", "n", "g", " ", "h", "i" >>,
    << "m", "e", "n", "u", "s" >>
>>

\* calculate_intent_score(msg, keywords) is called and returns
ScoreCall(msg, keywords) ==
    /\ pc = "idle"
    /\ score_msg' = msg
    /\ score_keywords' = keywords
    /\ score' = calculate_intent_score(msg, keywords)
    /\ pc' = "scored"
    /\ UNCHANGED not_score_vars

\* the caller takes the value
ScoreReturn ==
    /\ pc = "scored"
    /\ pc' = "idle"
    /\ score_msg' = << >>
    /\ score_keywords' = << >>
    /\ score' = 0
    /\ UNCHANGED not_score_vars

NextScore ==
    \/ \E msg \in Range(ScoreTexts), keywords \in KeywordLists :
          ScoreCall(msg, keywords)
    \/ ScoreReturn

SpecScore == Init /\ [][NextScore]_vars

(* ------------------------------------------------------------------ *)
(* Calls of search_menu and of the FAQ branch                          *)
(* ------------------------------------------------------------------ *)

\* entries of a category: items with a description, variants and flavours
\* of every form the loops tell apart, two items that share the flavour
\* "Hot", an item named like a flavour of another, and entries that are not
\* items
EntryPool == <<
    \* {"name": "Zinger", "flavours": [{"name": "Hot"}, "Mild", 3]}
    Dict([name |-> Str(<< "Z", "i", "n", "g", "e", "r" >>),
          flavours |-> List(<< Dict([name |-> Str(<< "H", "o", "t" >>)]), Str(<< "M", "i", "l", "d" >>),
                               Integer(<< "3" >>) >>)]),
    \* {"name": "Pizza", "description": "cheesy", "variants": [{"size":
    \*  "large"}, {"size": 12}, {"price": 5}, "small"]}
    Dict([name |-> Str(<< "P", "i", "z", "z", "a" >>), description |-> Str(<< "c", "h", "e", "e", "s", "y" >>),
          variants |-> List(<< Dict([size |-> Str(<< "l", "a", "r", "g", "e" >>)]),
                               Dict([size |-> Integer(<< "1", "2" >>)]),
                               Dict([price |-> Integer(<< "5" >>)]),
                               Str(<< "s", "m", "a", "l", "l" >>) >>)]),
    \* {"name": "Wrap", "description": "", "flavours": ["Hot"]}
    Dict([name |-> Str(<< "W", "r", "a", "p" >>), description |-> Str(<< >>),
          flavours |-> List(<< Str(<< "H", "o", "t" >>) >>)]),
    \* {"name": "Hot"}
    Dict([name |-> Str(<< "H", "o", "t" >>)]),
    \* {"name": "Tea", "variants": "cup", "flavours": None}
    Dict([name |-> Str(<< "T", "e", "a" >>), variants |-> Str(<< "c", "u", "p" >>), flavours |-> None]),
    \* "Soup"
    Str(<< "S", "o", "u", "p" >>),
    \* {"description": "cheesy"}
    Dict([description |-> Str(<< "c", "h", "e", "e", "s", "y" >>)]),
    \* {"name": None}
    Dict([name |-> None]),
    \* {"name": ["Roll"]}
    Dict([name |-> List(<< Str(<< "R", "o", "l", "l" >>) >>)])
>>

MaxItems == 2

\* the sequences of at most MaxItems entries
EntryLists == UNION { [1..n -> Range(EntryPool)] : n \in 0..MaxItems }

\* menu_data without a key, and menu_data with the entries in two
\* categories, the last entry in the second, and a key between them whose
\* value is not a list
Catalogs ==
    { << >> } \cup
    { << List(IF es = << >> THEN << >> ELSE SubSeq(es, 1, Len(es) - 1)),
         Str(<< "c", "l", "o", "s", "e", "d" >>),
         List(IF es = << >> THEN << >> ELSE << es[Len(es)] >>) >> :
       es \in EntryLists }

\* ratios below, at and above the threshold of search_menu
ExtractRatios == { 59, 60, 100 }

\* what process.extractOne can give for the choices: one of them with a
\* ratio; an exception when a choice is not a str
ExtractOutcomes(choices) ==
    { [called |-> TRUE, raised |-> FALSE, match |-> choices[n], ratio |-> r] :
        n \in DOMAIN choices, r \in ExtractRatios }
    \cup
    IF \E n \in DOMAIN choices : ~isinstance(choices[n], "str")
    THEN { [called |-> TRUE, raised |-> TRUE, match |-> None, ratio |-> 0] }
    ELSE {}

\* search_menu(user_msg, catalog) is called and returns or raises;
\* extractOne is called when the loops end with all_items not empty
SearchMenu(catalog) ==
    /\ pc = "idle"
    /\ \E extract \in IF item_map_raises(catalog) \/ all_items(catalog) = << >>
                      THEN { NotCalled }
                      ELSE ExtractOutcomes(all_items(catalog)) :
          /\ extracted' = extract
          /\ menu_item' = search_menu(catalog, extract)
    /\ menu_data' = catalog
    /\ pc' = "searched"
    /\ UNCHANGED not_menu_vars

\* the caller takes the value
SearchReturn ==
    /\ pc = "searched"
    /\ pc' = "idle"
    /\ menu_data' = << >>
    /\ extracted' = NotCalled
    /\ menu_item' = None
    /\ UNCHANGED not_menu_vars

\* entries of the list faq: two questions that differ in case only, entries
\* without a question or without an answer, an entry that is not a dict and
\* one whose question is not a str
FaqPool == <<
    \* {"question": "Halal?", "answer": "all"}
    Dict([question |-> Str(<< "H", "a", "l", "a", "l", "?" >>), answer |-> Str(<< "a", "l", "l" >>)]),
    \* {"question": "halal?", "answer": "some"}
    Dict([question |-> Str(<< "h", "a", "l", "a", "l", "?" >>), answer |-> Str(<< "s", "o", "m", "e" >>)]),
    \* {"question": "Open?", "answer": "yes"}
    Dict([question |-> Str(<< "O", "p", "e", "n", "?" >>), answer |-> Str(<< "y", "e", "s" >>)]),
    \* {"question": "fee", "answer": "all"}
    Dict([question |-> Str(<< "f", "e", "e" >>), answer |-> Str(<< "a", "l", "l" >>)]),
    \* {"question": "Cash?"}
    Dict([question |-> Str(<< "C", "a", "s", "h", "?" >>)]),
    \* {"answer": "lost"}
    Dict([answer |-> Str(<< "l", "o", "s", "t" >>)]),
    \* "Halal?"
    Str(<< "H", "a", "l", "a", "l", "?" >>),
    \* {"question": 5, "answer": "five"}
    Dict([question |-> Integer(<< "5" >>), answer |-> Str(<< "f", "i", "v", "e" >>)])
>>

MaxFaqs == 2

\* ratios below, at and above the threshold of the FAQ branch
FaqRatios == { 0, 59, 60, 61, 100 }

\* the lists of at most MaxFaqs entries
FaqLists == UNION { [1..n -> Range(FaqPool)] : n \in 0..MaxFaqs }

\* the lower-cased questions of the entries that have one
Questions(faq) ==
    { lower(question_of(faq[n]).val) :
        n \in { m \in DOMAIN faq : /\ isinstance(faq[m], "dict")
                                   /\ isinstance(question_of(faq[m]), "str") } }

\* the branch of faq_query runs on the list faq and returns or raises
AnswerFaq(faq, ratios) ==
    /\ pc = "idle"
    /\ faqs' = faq
    /\ faq_ratios' = ratios
    /\ faq_answer' = faq_response(faq, ratios)
    /\ pc' = "answered"
    /\ UNCHANGED not_faq_vars

\* the caller takes the value
AnswerReturn ==
    /\ pc = "answered"
    /\ pc' = "idle"
    /\ faqs' = << >>
    /\ faq_ratios' = NoScores
    /\ faq_answer' = None
    /\ UNCHANGED not_faq_vars

NextLookup ==
    \/ \E catalog \in Catalogs : SearchMenu(catalog)
    \/ SearchReturn
    \/ \E faq \in FaqLists :
          \E ratios \in [Questions(faq) \ { << >> } -> FaqRatios] :
              AnswerFaq(faq, ratios)
    \/ AnswerReturn

SpecLookup == Init /\ [][NextLookup]_vars

(* ------------------------------------------------------------------ *)
(* Calls of expand_synonyms                                            *)
(* ------------------------------------------------------------------ *)

\* words of two groups ("food", "list", "open", "location", "available"),
\* of one group ("closed", "where", "tell"), and of none ("pizza", and
\* "me", which is a word of the synonym "tell me" only)
SynonymWords == <<
    << "f", "o", "o", "d" >>,
    << "l", "i", "s", "t" >>,
    << "o", "p", "e", "n" >>,
    << "l", "o", "c", "a", "t", "i", "o", "n" >>,
    << "p", "i", "z", "z", "a" >>,
    << "t", "e", "l", "l" >>,
    << "m", "e" >>,
    << "c", "l", "o", "s", "e", "d" >>,
    << "w", "h", "e", "r", "e" >>,
    << "a", "v", "a", "i", "l", "a", "b", "l", "e" >>
>>

MaxWords == 2

\* the texts of at most MaxWords words, and a text with white space around
\* and between its words
SynonymTexts ==
    { join(ws) : ws \in UNION { [1..n -> Range(SynonymWords)] : n \in 0..MaxWords } }
    \cup { << " ", "f", "o", "o", "d", " ", " ", "p", "i", "z", "z", "a", "\t" >> }

\* expand_synonyms(t, SYNONYMS) is called and returns
ExpandSynonyms(t) ==
    /\ pc = "idle"
    /\ syn_text' = t
    /\ expanded' = expand_synonyms(t, SYNONYMS)
    /\ pc' = "expanded"
    /\ UNCHANGED not_syn_vars

\* the caller takes the value
ExpandReturn ==
    /\ pc = "expanded"
    /\ pc' = "idle"
    /\ syn_text' = << >>
    /\ expanded' = << >>
    /\ UNCHANGED not_syn_vars

NextSynonyms ==
    \/ \E t \in SynonymTexts : ExpandSynonyms(t)
    \/ ExpandReturn

SpecSynonyms == Init /\ [][NextSynonyms]_vars

(* ------------------------------------------------------------------ *)
(* Calls of get_bot_response                                           *)
(* ------------------------------------------------------------------ *)

\* utterances of each intent: "Hi", "Bye,", "branch", "parking?", "open",
\* "about", "menu", "Hot", "Full Menu " and one of five tokens that no
\* keyword is close to
BotMessages == <<
    << "H", "i" >>,
    << "B", "y", "e", "," >>,
    << "b", "r", "a", "n", "c", "h" >>,
    << "p", "a", "r", "k", "i", "n", "g", "?" >>,
    << "o", "p", "e", "n" >>,
    << "a", "b", "o", "u", "t" >>,
    << "m", "e", "n", "u" >>,
    << "H", "o", "t" >>,
    << "F", "u", "l", "l", " ", "M", "e", "n", "u", " " >>,
    << "q", "q", " ", " ", "q", "q", "\t", "q", "q", " ", "q", "q", " ", "z", "z" >>
>>

\* what extractOne can give get_bot_response for the utterance and the
\* snapshot: search_menu calls it for menu_query when the menu has items and
\* the whole menu is not asked for
BotExtracts(intent, msg, data) ==
    IF /\ intent = "menu_query"
       /\ data.menu # << >>
       /\ ~wants_full(strip(lower(msg)))
       /\ all_items(data.menu) # << >>
    THEN ExtractOutcomes(all_items(data.menu))
    ELSE { NotCalled }

\* the ratios token_set_ratio can give for the questions of the snapshot;
\* it is called for faq_query only
BotRatios(intent, data) ==
    IF intent = "faq_query"
    THEN [Questions(data.faq) \ { << >> } -> { 59, 60, 61, 100 }]
    ELSE { << >> }

\* the caller passes another snapshot from now on
PassData(data) ==
    /\ pc = "idle"
    /\ snapshot' = data
    /\ UNCHANGED << pc, keyword_table, synonym_table, bot_msg, bot_intent,
                    bot_scorers, bot_reply >>
    /\ UNCHANGED << not_bot_vars, app_vars >>

\* get_bot_response(msg, snapshot) is called and returns
Respond(msg) ==
    /\ pc = "idle"
    /\ bot_msg' = msg
    /\ bot_intent' = detect_intent(msg)
    /\ \E extract \in BotExtracts(bot_intent', msg, snapshot),
          ratios \in BotRatios(bot_intent', snapshot) :
           /\ bot_scorers' = [extract |-> extract, ratios |-> ratios]
           /\ bot_reply' = get_bot_response(bot_intent', msg, snapshot,
                                            extract, ratios)
    /\ snapshot' = data_after_response(snapshot)
    /\ pc' = "responded"
    /\ UNCHANGED << keyword_table, synonym_table >>
    /\ UNCHANGED << not_bot_vars, app_vars >>

\* the caller takes the reply; the tables and the snapshot stay
RespondReturn ==
    /\ pc = "responded"
    /\ pc' = "idle"
    /\ bot_msg' = << >>
    /\ bot_intent' = "none"
    /\ bot_scorers' = NoScorers
    /\ bot_reply' = NoReply
    /\ UNCHANGED << keyword_table, synonym_table, snapshot >>
    /\ UNCHANGED << not_bot_vars, app_vars >>

NextRespond ==
    \/ \E data \in Range(Snapshots) : PassData(data)
    \/ \E msg \in Range(BotMessages) : Respond(msg)
    \/ RespondReturn

SpecRespond == Init /\ [][NextRespond]_vars

(* ------------------------------------------------------------------ *)
(* The application: the startup event and concurrent requests          *)
(* ------------------------------------------------------------------ *)

Workers == 1 .. MaxRequests

\* the bodies of the requests: "Hi" and "Hot"
AppMessages == << BotMessages[1], BotMessages[8] >>

Endpoints == { "/chat", "/api/query" }

\* startup_event: load_data returns and line 33 sets app.state.data
StartupLoads(data) ==
    /\ startup = "pending"
    /\ startup' = "done"
    /\ loaded_data' = data
    /\ snapshot' = data
    /\ app_state_data' = "object"
    /\ UNCHANGED << requests, keyword_table, synonym_table, bot_msg,
                    bot_intent, bot_scorers, bot_reply, pc >>
    /\ UNCHANGED not_bot_vars

\* startup_event: load_data raises, lines 34-37 log and raise again
StartupFails ==
    /\ startup = "pending"
    /\ startup' = "failed"
    /\ UNCHANGED << app_state_data, loaded_data, requests, pc >>
    /\ UNCHANGED bot_vars
    /\ UNCHANGED not_bot_vars

\* what a step of a worker leaves alone
app_frame == << startup, loaded_data, keyword_table, synonym_table, bot_msg,
                bot_intent, bot_scorers, bot_reply, pc >>

\* a worker enters chat or api_query with the body of a request
Receive(w, endpoint, message) ==
    /\ requests[w].pc = "free"
    /\ requests' = [requests EXCEPT ![w] =
           [NoRequest EXCEPT !.pc = "entered", !.endpoint = endpoint,
                             !.message = message]]
    /\ UNCHANGED << app_state_data, snapshot >>
    /\ UNCHANGED app_frame
    /\ UNCHANGED not_bot_vars

\* data = getattr(app.state, "data", None) (lines 46 and 61)
getattr_data == IF app_state_data = "absent" THEN "None" ELSE "object"

\* A step of a worker is one read of app.state or of the snapshot together
\* with the statements on locals that follow it.

\* the handler reads app.state.data, finds None and returns the starting up
\* reply (lines 46-48 and 61-63)
ReplyStartingUp(w) ==
    /\ requests[w].pc = "entered"
    /\ data_is_none(getattr_data)
    /\ requests' = [requests EXCEPT
           ![w].pc = "returned",
           ![w].data = getattr_data,
           ![w].line = starting_up_line(requests[w].endpoint),
           ![w].actions = << >>]
    /\ UNCHANGED << app_state_data, snapshot >>
    /\ UNCHANGED app_frame
    /\ UNCHANGED not_bot_vars

\* the handler reads app.state.data, finds it is not None and calls
\* get_bot_response (lines 50 and 65), which runs line 378
Classify(w) ==
    /\ requests[w].pc = "entered"
    /\ ~data_is_none(getattr_data)
    /\ requests' = [requests EXCEPT
           ![w].pc = "classified",
           ![w].data = getattr_data,
           ![w].bot_called = TRUE,
           ![w].intent = detect_intent(requests[w].message)]
    /\ UNCHANGED << app_state_data, snapshot >>
    /\ UNCHANGED app_frame
    /\ UNCHANGED not_bot_vars

\* get_bot_response runs lines 379-598 on the object its argument data
\* refers to, and the handler returns (lines 51 and 66-85)
Resolve(w) ==
    /\ requests[w].pc = "classified"
    /\ \E extract \in BotExtracts(requests[w].intent, requests[w].message, snapshot),
          ratios \in BotRatios(requests[w].intent, snapshot) :
           requests' = [requests EXCEPT
               ![w].pc = "returned",
               ![w].scorers = [extract |-> extract, ratios |-> ratios],
               ![w].reply = get_bot_response(requests[w].intent,
                                requests[w].message, snapshot, extract, ratios),
               ![w].line = response_line(requests[w].endpoint),
               ![w].actions = IF requests[w].endpoint = "/chat" THEN << >>
                              ELSE actions_for(requests[w].message)]
    /\ snapshot' = data_after_response(snapshot)
    /\ UNCHANGED app_state_data
    /\ UNCHANGED app_frame
    /\ UNCHANGED not_bot_vars

\* the response is sent and the worker is free again
Send(w) ==
    /\ requests[w].pc = "returned"
    /\ requests' = [requests EXCEPT ![w] = NoRequest]
    /\ UNCHANGED << app_state_data, snapshot >>
    /\ UNCHANGED app_frame
    /\ UNCHANGED not_bot_vars

NextApp ==
    \/ StartupLoads(AppSnapshot)
    \/ StartupFails
    \/ \E w \in Workers :
          \/ \E endpoint \in Endpoints, message \in Range(AppMessages) :
                Receive(w, endpoint, message)
          \/ ReplyStartingUp(w)
          \/ Classify(w)
          \/ Resolve(w)
          \/ Send(w)

SpecApp == Init /\ [][NextApp]_vars

(* ------------------------------------------------------------------ *)
(* Properties of detect_intent                                         *)
(* ------------------------------------------------------------------ *)

Returned == pc = "returned"

Score(intent) == intent_scores[intent]

TopScore == MaxOf({ intent_scores[i] : i \in DOMAIN intent_scores })

TokenCount == Len(split(normalized_msg))

ClosedSet == { "greeting", "farewell", "hours_query", "branch_query",
               "about", "faq_query", "menu_query", "unknown" }

\* the text contains "open", "close", "timing" or "hour"
HoursSubstring ==
    \/ Contains(normalized_msg, << "o", "p", "e", "n" >>)
    \/ Contains(normalized_msg, << "c", "l", "o", "s", "e" >>)
    \/ Contains(normalized_msg, << "t", "i", "m", "i", "n", "g" >>)
    \/ Contains(normalized_msg, << "h", "o", "u", "r" >>)

\* by the scores, neither the greeting nor the farewell rule returns
PastFarewell == Score("greeting") <= 80 /\ Score("farewell") <= 80

\* ... nor the branch rule
PastBranch ==
    /\ PastFarewell
    /\ ~(/\ Score("branch_query") > 70
         /\ Score("menu_query") <= Score("branch_query"))

\* ... nor the FAQ rule
PastFaq == PastBranch /\ Score("faq_query") <= 70

\* ... nor the hours rule
PastHours ==
    /\ PastFaq
    /\ ~(/\ Score("hours_query") > 70
         /\ (Score("menu_query") <= 70 \/ HoursSubstring))

\* ... nor the about rule
PastAbout ==
    /\ PastHours
    /\ ~(Score("about") > 70 /\ Score("menu_query") < 60)

\* ... nor the menu rule
PastMenu == PastAbout /\ Score("menu_query") <= 50

\* str.swapcase() on one character
SwapChar(c) ==
    IF c \in Range(LowerLetters)
    THEN UpperLetters[CHOOSE i \in DOMAIN LowerLetters : LowerLetters[i] = c]
    ELSE IF c \in Range(UpperLetters)
    THEN LowerLetters[CHOOSE i \in DOMAIN UpperLetters : UpperLetters[i] = c]
    ELSE c

\* str.swapcase()
swapcase(text) == [i \in DOMAIN text |-> SwapChar(text[i])]

\* str.upper()
upper(text) ==
    [i \in DOMAIN text |->
        IF text[i] \in Range(LowerLetters) THEN SwapChar(text[i]) ELSE text[i]]

\* C1: every call of detect_intent, whatever the input string (the empty
\* string, white space only and punctuation only included), runs to a return
\* statement, and the value returned is one of the eight labels.
C1_ReturnsOneLabel ==
    /\ [](Returned => result \in ClosedSet)
    /\ (pc = "scoring" ~> Returned)

\* a call with a non-empty input that normalizes to the empty text has returned
C1_Witness ==
    /\ Returned
    /\ user_msg # << >>
    /\ normalized_msg = << >>
    /\ result \in ClosedSet

\* C2: a greeting score above 80 gives greeting whatever the other scores
\* are; otherwise a farewell score above 80 gives farewell whatever the
\* remaining scores are.
C2_GreetingThenFarewellFirst ==
    Returned =>
        /\ Score("greeting") > 80 => result = "greeting"
        /\ Score("greeting") <= 80 /\ Score("farewell") > 80
              => result = "farewell"

\* greeting returned against a farewell score of 100
C2_Witness ==
    /\ Returned
    /\ Score("greeting") > 80
    /\ Score("farewell") = 100
    /\ result = "greeting"

\* C3: past the greeting and farewell rules, a branch score above 70 gives
\* branch_query unless the menu score is strictly greater (equal scores give
\* branch_query); with a strictly greater menu score the branch rule does
\* not return and a later rule does.
C3_BranchUnlessMenuGreater ==
    Returned /\ PastFarewell /\ Score("branch_query") > 70 =>
        IF Score("menu_query") > Score("branch_query")
        THEN ret_line > 338 /\ result # "branch_query"
        ELSE ret_line = 338 /\ result = "branch_query"

\* the branch rule passed over for a strictly greater menu score
C3_Witness ==
    /\ Returned
    /\ PastFarewell
    /\ Score("branch_query") > 70
    /\ Score("menu_query") > Score("branch_query")
    /\ ret_line > 338

\* C4: past the greeting, farewell and branch rules, a FAQ score above 70
\* gives faq_query whatever the hours, about and menu scores are.
C4_FaqBeforeHoursAboutMenu ==
    Returned /\ PastBranch /\ Score("faq_query") > 70 => result = "faq_query"

\* faq_query returned against a menu score of 100
C4_Witness ==
    /\ Returned
    /\ PastBranch
    /\ Score("faq_query") > 70
    /\ Score("menu_query") = 100
    /\ result = "faq_query"

\* C5: past rules 1-4 with an hours score above 70: a menu score of at most
\* 70 gives hours_query; a menu score above 70 gives hours_query only when
\* the normalized text contains "open", "close", "timing" or "hour", and
\* otherwise the hours rule does not return and the about or the menu rule
\* does.
C5_HoursAgainstMenu ==
    Returned /\ PastFaq /\ Score("hours_query") > 70 =>
        IF Score("menu_query") <= 70
        THEN result = "hours_query" /\ ret_line = 354
        ELSE IF HoursSubstring
        THEN result = "hours_query" /\ ret_line = 352
        ELSE ret_line \in { 358, 362 } /\ result # "hours_query"

\* hours and menu both above 70, none of the four substrings: not hours_query
C5_Witness ==
    /\ Returned
    /\ PastFaq
    /\ Score("hours_query") > 70
    /\ Score("menu_query") > 70
    /\ ~HoursSubstring
    /\ ret_line \in { 358, 362 }

\* about is the first intent in table order that has the greatest score, that
\* score is above 50 and the menu score is not
AboutIsBest ==
    /\ Score("menu_query") <= 50
    /\ Score("about") > 50
    /\ Score("about") = TopScore
    /\ \A i \in { "greeting", "farewell", "hours_query", "branch_query" } :
          Score(i) < Score("about")

\* C6 as stated: past rules 1-5 about is returned exactly when the about
\* score is above 70 and the menu score below 60; with about above 70 and
\* menu at least 60 the result is menu_query.
C6_AboutExactlyByItsRule ==
    Returned /\ PastHours =>
        /\ result = "about" <=>
              (Score("about") > 70 /\ Score("menu_query") < 60)
        /\ Score("about") > 70 /\ Score("menu_query") >= 60
              => result = "menu_query"

\* C6 amended: past rules 1-5 about is returned exactly when the about score
\* is above 70 and the menu score below 60, or when the menu score is at most
\* 50 and about is the first intent with the greatest score, above 50 (the
\* fallback on the greatest score); with about above 70 and menu at least 60
\* the result is menu_query.
C6_AboutByItsRuleOrAsBest ==
    Returned /\ PastHours =>
        /\ result = "about" <=>
              \/ Score("about") > 70 /\ Score("menu_query") < 60
              \/ AboutIsBest
        /\ Score("about") > 70 /\ Score("menu_query") >= 60
              => result = "menu_query"

\* about returned with an about score of at most 70
C6_Witness ==
    /\ Returned
    /\ PastHours
    /\ Score("about") <= 70
    /\ result = "about"

\* C7: past rules 1-6 a menu score above 50 gives menu_query, by the menu
\* rule; a menu score of 50 or less does not make the menu rule return.
C7_MenuAboveFifty ==
    Returned /\ PastAbout =>
        /\ Score("menu_query") > 50 => result = "menu_query" /\ ret_line = 362
        /\ Score("menu_query") <= 50 => ret_line # 362

\* the menu rule returning after the about rule was passed over for the
\* menu score
C7_Witness ==
    /\ Returned
    /\ PastAbout
    /\ Score("about") > 70
    /\ Score("menu_query") > 50
    /\ result = "menu_query"

\* C8: past rules 1-7 with a greatest score above 50, the intent returned has
\* the greatest score and no intent before it in table order has.
C8_FirstGreatestScore ==
    Returned /\ PastMenu /\ TopScore > 50 =>
        /\ ret_line = 368
        /\ result \in DOMAIN intent_scores
        /\ Score(result) = TopScore
        /\ \A k \in DOMAIN Intents :
              Intents[k] = result =>
                  \A j \in 1..(k - 1) : Score(Intents[j]) < TopScore

\* the fallback returning with two intents sharing the greatest score
C8_Witness ==
    /\ Returned
    /\ PastMenu
    /\ TopScore > 50
    /\ Cardinality({ i \in DOMAIN intent_scores : Score(i) = TopScore }) > 1
    /\ ret_line = 368

\* C9: a normalized text of at most 4 tokens is never classified unknown,
\* and when no score is above 50 (no rule before returns) it is menu_query.
C9_ShortTextDefaultsToMenu ==
    Returned /\ TokenCount <= 4 =>
        /\ result # "unknown"
        /\ TopScore <= 50 => result = "menu_query" /\ ret_line = 372

\* a text of exactly 4 tokens, no score above 50, returned as menu_query
C9_Witness ==
    /\ Returned
    /\ TokenCount = 4
    /\ TopScore <= 50
    /\ result = "menu_query"

\* C10: an input and the same text in another letter case (every letter
\* changed, all upper case, all lower case) are given the same label.
C10_CaseInsensitive ==
    Returned =>
        \A other \in { swapcase(user_msg), upper(user_msg), lower(user_msg) } :
            detect_intent(other) = result

\* a call whose input has an upper-case and a lower-case letter has returned
\* a label other than the default
C10_Witness ==
    /\ Returned
    /\ \E i \in DOMAIN user_msg : user_msg[i] \in Range(UpperLetters)
    /\ \E i \in DOMAIN user_msg : user_msg[i] \in Range(LowerLetters)
    /\ result \notin { "menu_query", "unknown" }

(* ------------------------------------------------------------------ *)
(* Properties of normalize_text                                        *)
(* ------------------------------------------------------------------ *)

Normalized == pc = "normalized"

\* no space at either end and no two spaces in a row
SingleSpaces(t) ==
    /\ t # << >> => t[1] # " " /\ t[Len(t)] # " "
    /\ \A i \in 1..(Len(t) - 1) : ~(t[i] = " " /\ t[i + 1] = " ")

\* lower-case ASCII letters, digits, the underscore and the space
PlainChars == Range(LowerLetters) \cup Digits \cup { "_", " " }

\* the text is written in ASCII
IsAscii(t) == \A i \in DOMAIN t : t[i] \notin OtherLetters

\* C11 as stated: the normalized text of every input consists of lower-case
\* letters, digits, underscores and single spaces only.
C11_OnlyLowercaseDigitsUnderscoreSpace ==
    Normalized =>
        /\ \A i \in DOMAIN normalized : normalized[i] \in PlainChars
        /\ SingleSpaces(normalized)

\* C11 amended: the normalized text of every input consists of alphanumeric
\* characters, underscores and single spaces only (no punctuation, no ASCII
\* upper-case letter, no space at either end, no two spaces in a row); for
\* an input written in ASCII the alphanumeric characters are lower-case
\* letters and digits.
C11_OnlyWordCharsAndSingleSpaces ==
    Normalized =>
        /\ \A i \in DOMAIN normalized :
              normalized[i] \in PlainChars \cup OtherLetters
        /\ SingleSpaces(normalized)
        /\ IsAscii(raw_text) =>
              \A i \in DOMAIN normalized : normalized[i] \in PlainChars

\* an input with punctuation and the upper-case letter outside ASCII: the
\* letter is kept as it is
C11_Witness ==
    /\ Normalized
    /\ \E i \in DOMAIN raw_text : raw_text[i] = "?"
    /\ \E i \in DOMAIN normalized : normalized[i] = "U+1D400"

\* the text contains none of the contractions of the table
ContractionFree(t) ==
    \A n \in DOMAIN contractions : ~Contains(t, contractions[n][1])

\* C12: for every input free of contractions, normalizing the normalized
\* text again gives the same text.
C12_Idempotent ==
    Normalized /\ ContractionFree(raw_text) =>
        normalize_text(normalized) = normalized

\* an input free of contractions that normalization changes
C12_Witness ==
    /\ Normalized
    /\ ContractionFree(raw_text)
    /\ normalized # raw_text
    /\ normalized # << >>
    /\ normalize_text(normalized) = normalized

\* C13: for every input that contains a contraction of the table (in any
\* letter case), the normalized text contains the expansion the table gives.
C13_ContractionsExpanded ==
    Normalized =>
        \A n \in DOMAIN contractions :
            Contains(lower(raw_text), contractions[n][1])
                => Contains(normalized, contractions[n][2])

(* ------------------------------------------------------------------ *)
(* Properties of the scores                                            *)
(* ------------------------------------------------------------------ *)

\* the keyword occurs in the text as a word or phrase between spaces
Standalone(t, keyword) ==
    Contains(<< " " >> \o t \o << " " >>, << " " >> \o keyword \o << " " >>)

\* C14: when the loop of detect_intent has scored every intent, the score
\* of an intent is 100 if one of its keywords stands in the normalized text
\* as a word or phrase between spaces, at least 90 if one of its keywords
\* longer than 3 characters is a substring of the normalized text, and never
\* below what calculate_intent_score returns for the intent.
C14_KeywordOverride ==
    pc = "deciding" =>
        \A i \in DOMAIN intent_scores :
            LET keywords == INTENT_KEYWORDS[i]
            IN  /\ (\E k \in DOMAIN keywords :
                       Standalone(normalized_msg, keywords[k]))
                      => intent_scores[i] = 100
                /\ (\E k \in DOMAIN keywords :
                       /\ Len(keywords[k]) > 3
                       /\ Contains(normalized_msg, keywords[k]))
                      => intent_scores[i] >= 90
                /\ intent_scores[i]
                      >= calculate_intent_score(normalized_msg, keywords)

\* a keyword longer than 3 inside a longer word lifts a score that
\* calculate_intent_score puts below 90 to 90
C14_Witness ==
    /\ pc = "deciding"
    /\ \E i \in DOMAIN intent_scores :
          LET keywords == INTENT_KEYWORDS[i]
          IN  /\ \A k \in DOMAIN keywords :
                    ~Standalone(normalized_msg, keywords[k])
              /\ \E k \in DOMAIN keywords :
                    /\ Len(keywords[k]) > 3
                    /\ Contains(normalized_msg, keywords[k])
              /\ calculate_intent_score(normalized_msg, keywords) < 90
              /\ intent_scores[i] = 90

Scored == pc = "scored"

\* the whitespace tokens of the text
Tokens(t) == Range(split(t))

\* the values calculate_intent_score records besides 0: 100 for a keyword
\* that is a token, the ratio of a keyword and a token both longer than 2,
\* the partial ratio of the text and a keyword of several words
Candidates(msg, keywords) ==
    { 100 : k \in { j \in DOMAIN keywords : keywords[j] \in Tokens(msg) } }
    \cup { ratio(w, keywords[k]) :
             w \in { u \in Tokens(msg) : Len(u) > 2 },
             k \in { j \in DOMAIN keywords :
                       Len(keywords[j]) > 2 /\ keywords[j] \notin Tokens(msg) } }
    \cup { partial_ratio(msg, keywords[k]) :
             k \in { j \in DOMAIN keywords : Contains(keywords[j], << " " >>) } }

\* C15: the value calculate_intent_score returns lies in 0..100 and is the
\* greatest value recorded (0 with no keyword); it is 100 when a keyword is
\* a token of the text; and with no keyword of several words, no keyword
\* that is a token, and no pair of a token and a keyword both longer than 2,
\* it is 0.
C15_ScoreIsGreatestRecorded ==
    Scored =>
        /\ score \in 0..100
        /\ score \in Candidates(score_msg, score_keywords) \cup { 0 }
        /\ \A c \in Candidates(score_msg, score_keywords) : c <= score
        /\ score_keywords = << >> => score = 0
        /\ (\E k \in DOMAIN score_keywords :
               score_keywords[k] \in Tokens(score_msg)) => score = 100
        /\ (/\ \A k \in DOMAIN score_keywords :
                  /\ ~Contains(score_keywords[k], << " " >>)
                  /\ score_keywords[k] \notin Tokens(score_msg)
            /\ \A k \in DOMAIN score_keywords, w \in Tokens(score_msg) :
                  Len(score_keywords[k]) <= 2 \/ Len(w) <= 2)
              => score = 0

\* a token of 2 characters that a keyword of 3 begins with: no ratio is
\* taken and the score is 0
C15_Witness ==
    /\ Scored
    /\ score = 0
    /\ \E k \in DOMAIN score_keywords, w \in Tokens(score_msg) :
          /\ Len(w) = 2
          /\ Len(score_keywords[k]) = 3
          /\ SubSeq(score_keywords[k], 1, 2) = w

(* ------------------------------------------------------------------ *)
(* Properties of search_menu                                           *)
(* ------------------------------------------------------------------ *)

Searched == pc = "searched"

\* entry is an item: a dict that has the key "name"
IsItem(entry) == isinstance(entry, "dict") /\ HasKey(entry, "name")

\* the entries of the categories of the catalog that are lists, in order
Entries(catalog) ==
    Flatten([c \in DOMAIN catalog |->
                IF isinstance(catalog[c], "list") THEN catalog[c].elems
                ELSE << >>])

\* the items of the catalog, in order
Items(catalog) == SelectSeq(Entries(catalog), IsItem)

\* C16: search_menu returns None, without asking extractOne, whenever the
\* catalog gives an empty corpus: menu_data has no key, its categories have
\* no entry, or none of the entries is an item
C16_EmptyCorpusGivesNone ==
    Searched /\ Items(menu_data) = << >> =>
        menu_item = None /\ ~extracted.called

\* a catalog that has entries, none of them an item, was searched
C16_Witness ==
    /\ Searched
    /\ Entries(menu_data) # << >>
    /\ Items(menu_data) = << >>
    /\ menu_item = None

\* the names of the items of the catalog
ItemNames(catalog) ==
    { Items(catalog)[n].fields["name"] : n \in DOMAIN Items(catalog) }

\* C17: when extractOne gives a choice of a catalog in which no item is
\* named None, search_menu returns a value other than None exactly when the
\* ratio of the choice is at least 60, and the value is the name of an item
\* of the catalog
C17_ThresholdAndItemName ==
    /\ Searched
    /\ extracted.called
    /\ ~extracted.raised
    /\ None \notin ItemNames(menu_data)
    => /\ menu_item # None <=> extracted.ratio >= 60
       /\ menu_item # None => menu_item \in ItemNames(menu_data)

\* a choice that is not the name of an item had the ratio 60 and the call
\* returned the name of an item
C17_Witness ==
    /\ Searched
    /\ extracted.called
    /\ extracted.ratio = 60
    /\ None \notin ItemNames(menu_data)
    /\ extracted.match \notin ItemNames(menu_data)
    /\ menu_item \in ItemNames(menu_data)

\* the value of key of the item when it is a list, else no element
ListOf(item, key) ==
    IF HasKey(item, key) /\ isinstance(item.fields[key], "list")
    THEN item.fields[key].elems
    ELSE << >>

\* "{left} {name}" for an item of that name
Joined(left, name) == Str(format(left) \o << " " >> \o format(name))

\* the description of the item when it is not empty
DescriptionStrings(item) ==
    IF HasKey(item, "description") /\ truthy(item.fields["description"])
    THEN { item.fields["description"] }
    ELSE {}

\* "{size} {name}" for each variant of the item that has a size
VariantStrings(item) ==
    LET vs == ListOf(item, "variants")
    IN  { Joined(vs[n].fields["size"], item.fields["name"]) :
            n \in { m \in DOMAIN vs : /\ isinstance(vs[m], "dict")
                                      /\ HasKey(vs[m], "size") } }

\* the flavours of the item: the name of a record, or a plain string
FlavourNames(item) ==
    LET fs == ListOf(item, "flavours")
    IN  { fs[n].fields["name"] :
            n \in { m \in DOMAIN fs : /\ isinstance(fs[m], "dict")
                                      /\ HasKey(fs[m], "name") } }
        \cup
        { fs[n] : n \in { m \in DOMAIN fs : isinstance(fs[m], "str") } }

\* "{flavour} {name}" and the bare flavour for each flavour of the item
FlavourStrings(item) ==
    UNION { { Joined(f, item.fields["name"]), f } : f \in FlavourNames(item) }

\* the description, variant and flavour strings of the item
DerivedStrings(item) ==
    DescriptionStrings(item) \cup VariantStrings(item) \cup FlavourStrings(item)

\* the corpus holds the name of every item and its description, variant
\* and flavour strings
CorpusComplete ==
    \A n \in DOMAIN Items(menu_data) :
        { Items(menu_data)[n].fields["name"] }
            \cup DerivedStrings(Items(menu_data)[n])
        \subseteq Range(all_items(menu_data))

\* extractOne gave a choice with a ratio of at least 60
Matched ==
    /\ Searched
    /\ extracted.called
    /\ ~extracted.raised
    /\ extracted.ratio >= 60

\* the items, by their place in Items(catalog), that have the string as
\* their name or as a description, variant or flavour string
Owners(catalog, string) ==
    { n \in DOMAIN Items(catalog) :
        \/ Items(catalog)[n].fields["name"] = string
        \/ string \in DerivedStrings(Items(catalog)[n]) }

\* C18: the corpus holds the strings of every item, and a choice
\* that is a description, variant or flavour string of item X makes
\* search_menu return the name of X, for every such X
C18_ReturnsNameOfEveryOwner ==
    Searched /\ menu_item.type # "raise" =>
        /\ CorpusComplete
        /\ Matched =>
              \A n \in DOMAIN Items(menu_data) :
                  extracted.match \in DerivedStrings(Items(menu_data)[n]) =>
                      menu_item = Items(menu_data)[n].fields["name"]

\* what search_menu does: the corpus holds the strings of every item, and a
\* choice with a ratio of at least 60 makes it return the name of the last
\* item of the catalog that has the choice among its strings, the name of X
\* only when no later item has the same string
C18_ReturnsNameOfLastOwner ==
    Searched /\ menu_item.type # "raise" =>
        /\ CorpusComplete
        /\ Matched =>
              /\ Owners(menu_data, extracted.match) # {}
              /\ menu_item =
                    Items(menu_data)[MaxOf(Owners(menu_data, extracted.match))]
                        .fields["name"]

\* the choice was a string of two items, a flavour of the first of them, and
\* the call returned the name of the second
C18_Witness ==
    /\ Matched
    /\ \E n, k \in Owners(menu_data, extracted.match) :
          /\ n < k
          /\ extracted.match \in FlavourStrings(Items(menu_data)[n])
          /\ Items(menu_data)[n].fields["name"] # Items(menu_data)[k].fields["name"]
          /\ menu_item = Items(menu_data)[k].fields["name"]

(* ------------------------------------------------------------------ *)
(* Properties of the FAQ branch                                        *)
(* ------------------------------------------------------------------ *)

Answered == pc = "answered"

\* the entries of faqs that are scored: the dicts
ScoredEntries == { n \in DOMAIN faqs : isinstance(faqs[n], "dict") }

\* the ratio of the question of entry n against the utterance
RatioOf(n) == token_set_ratio(faq_ratios, lower(question_of(faqs[n]).val))

\* the greatest ratio of an entry, 0 when no entry is scored
BestRatio == MaxOf({ 0 } \cup { RatioOf(n) : n \in ScoredEntries })

\* the first entry that has the greatest ratio
FirstBest ==
    CHOOSE n \in ScoredEntries :
        /\ RatioOf(n) = BestRatio
        /\ \A m \in ScoredEntries : RatioOf(m) = BestRatio => n <= m

\* one of the two sentences that say no answer was found
NoMatch(v) == v \in { NoFaqMessage, NoAnswerMessage }

\* C19: the FAQ branch returns the answer of the first entry that has the
\* greatest ratio when that ratio is greater than 60; when it is 60 or less,
\* or the list is empty, it returns a sentence that says no answer was found
C19_FirstBestAbove60 ==
    Answered /\ faq_answer.type # "raise" =>
        IF BestRatio > 60
        THEN faq_answer = get(faqs[FirstBest], "answer", Str(<< >>))
        ELSE NoMatch(faq_answer)

\* two entries with different answers had the greatest ratio, above 60, and
\* the answer of the first was returned
C19_Witness ==
    /\ Answered
    /\ faq_answer.type # "raise"
    /\ BestRatio > 60
    /\ \E n, m \in ScoredEntries :
          /\ n < m
          /\ RatioOf(n) = BestRatio
          /\ RatioOf(m) = BestRatio
          /\ get(faqs[n], "answer", None) # get(faqs[m], "answer", None)
          /\ faq_answer = get(faqs[n], "answer", None)

(* ------------------------------------------------------------------ *)
(* Entries of the wrong shape                                          *)
(* ------------------------------------------------------------------ *)

\* C20: whatever the shape of the entries of the catalog and of the FAQ
\* list, neither search_menu nor the FAQ branch raises an exception
C20_MalformedEntriesNeverRaise ==
    /\ Searched => menu_item.type # "raise"
    /\ Answered => faq_answer.type # "raise"

(* ------------------------------------------------------------------ *)
(* Further properties of detect_intent                                 *)
(* ------------------------------------------------------------------ *)

\* "what time do you open"
WhatTimeDoYouOpen == Examples[3]

\* C25: "what time do you open" is classified hours_query: the scores of
\* hours_query and menu_query are both 100, none of the greeting, farewell,
\* branch and FAQ rules returns, and the word "open" makes the hours rule
\* return at line 352
C25_WhatTimeDoYouOpenIsHours ==
    Returned /\ user_msg = WhatTimeDoYouOpen =>
        /\ result = "hours_query"
        /\ ret_line = 352
        /\ Score("hours_query") = 100
        /\ Score("menu_query") = 100
        /\ PastFaq
        /\ Contains(normalized_msg, << "o", "p", "e", "n" >>)

\* the utterance was classified
C25_Witness ==
    /\ Returned
    /\ user_msg = WhatTimeDoYouOpen
    /\ result = "hours_query"

C29_HoursWithoutItsWordsIsMenu ==
    /\ Returned
    /\ PastFaq
    /\ Score("hours_query") > 70
    /\ Score("menu_query") > 70
    /\ ~HoursSubstring
    => result = "menu_query" /\ ret_line = 362

\* the hours score came from "time" alone, the menu score was above 70, and
\* the label was menu_query
C29_Witness ==
    /\ Returned
    /\ PastFaq
    /\ Contains(normalized_msg, << "t", "i", "m", "e" >>)
    /\ Score("hours_query") > 70
    /\ Score("menu_query") > 70
    /\ ~HoursSubstring
    /\ result = "menu_query"

(* ------------------------------------------------------------------ *)
(* Strings that several items share                                    *)
(* ------------------------------------------------------------------ *)

\* the first item of the catalog that has the string among its strings
FirstOwner(catalog, string) ==
    Items(catalog)[CHOOSE n \in Owners(catalog, string) :
                      \A m \in Owners(catalog, string) : n <= m]

\* C23: a choice with a ratio of at least 60 that is a string of several
\* items makes search_menu return the name of the first of them in the
\* order of the catalog
C23_FirstOwnerWins ==
    Matched /\ menu_item.type # "raise"
            /\ Owners(menu_data, extracted.match) # {} =>
        menu_item = FirstOwner(menu_data, extracted.match).fields["name"]

\* a description is absent or a str, the variants are absent or a list of
\* dicts with a size that is a str, the flavours are absent or a list of
\* strs and of dicts with a name that is a str
WellFormedItem(entry) ==
    /\ IsItem(entry)
    /\ isinstance(entry.fields["name"], "str")
    /\ entry.fields["name"].val # << >>
    /\ HasKey(entry, "description") =>
          isinstance(entry.fields["description"], "str")
    /\ HasKey(entry, "variants") =>
          /\ isinstance(entry.fields["variants"], "list")
          /\ \A n \in DOMAIN entry.fields["variants"].elems :
                LET v == entry.fields["variants"].elems[n]
                IN  /\ isinstance(v, "dict")
                    /\ HasKey(v, "size")
                    /\ isinstance(v.fields["size"], "str")
    /\ HasKey(entry, "flavours") =>
          /\ isinstance(entry.fields["flavours"], "list")
          /\ \A n \in DOMAIN entry.fields["flavours"].elems :
                LET f == entry.fields["flavours"].elems[n]
                IN  \/ isinstance(f, "str")
                    \/ /\ isinstance(f, "dict")
                       /\ HasKey(f, "name")
                       /\ isinstance(f.fields["name"], "str")

\* every entry of the catalog is a well-formed item and no two have the
\* same name
WellFormedCatalog(catalog) ==
    /\ \A n \in DOMAIN Entries(catalog) : WellFormedItem(Entries(catalog)[n])
    /\ \A n, m \in DOMAIN Entries(catalog) :
          n # m => Entries(catalog)[n].fields["name"]
                      # Entries(catalog)[m].fields["name"]

\* C30: in a catalog of well-formed items with distinct names, a query that
\* is the name of item X, for which extractOne gives that name with the
\* ratio 100, makes search_menu return the name of X
C30_ExactNameReturnsThatItem ==
    /\ Searched
    /\ WellFormedCatalog(menu_data)
    /\ extracted.called
    /\ ~extracted.raised
    /\ extracted.ratio = 100
    /\ extracted.match \in ItemNames(menu_data)
    => menu_item = extracted.match

(* ------------------------------------------------------------------ *)
(* Properties of expand_synonyms                                       *)
(* ------------------------------------------------------------------ *)

Expanded == pc = "expanded"

\* the groups of SYNONYMS, by their place in the table, that have the token
GroupsOf(token) ==
    { k \in DOMAIN SYNONYMS : token \in Range(SYNONYMS[k].synonyms) }

\* what a token is replaced by: the whole list of the first group that has
\* it, or the token itself
Replacement(token) ==
    IF GroupsOf(token) = {} THEN << token >>
    ELSE SYNONYMS[CHOOSE k \in GroupsOf(token) :
                     \A j \in GroupsOf(token) : k <= j].synonyms

\* the replacements of the tokens, one after the other
RECURSIVE Replacements(_)
Replacements(tokens) ==
    IF tokens = << >> THEN << >>
    ELSE Replacement(Head(tokens)) \o Replacements(Tail(tokens))

\* the elements of a occur in b in the same order
RECURSIVE IsSubsequence(_, _)
IsSubsequence(a, b) ==
    IF a = << >> THEN TRUE
    ELSE IF b = << >> THEN FALSE
    ELSE IF Head(a) = Head(b) THEN IsSubsequence(Tail(a), Tail(b))
    ELSE IsSubsequence(a, Tail(b))

\* C24: expand_synonyms returns the replacements of the tokens of the text,
\* in the order of the tokens and joined by single spaces: for a token of a
\* synonym group the whole list of the first such group of the table, for
\* any other token the token.  Every token of the text occurs in the value
\* returned, and the tokens keep their order.
C24_TokensReplacedInPlace ==
    Expanded =>
        /\ expanded = join(Replacements(split(syn_text)))
        /\ \A n \in DOMAIN split(syn_text) :
              split(syn_text)[n] \in Range(split(expanded))
        /\ IsSubsequence(split(syn_text), split(expanded))

\* a token of two groups and a token of no group were expanded in one text
C24_Witness ==
    /\ Expanded
    /\ \E n, m \in DOMAIN split(syn_text) :
          /\ Cardinality(GroupsOf(split(syn_text)[n])) >= 2
          /\ GroupsOf(split(syn_text)[m]) = {}
    /\ Len(split(expanded)) > Len(split(syn_text))

(* ------------------------------------------------------------------ *)
(* Properties of get_bot_response                                      *)
(* ------------------------------------------------------------------ *)

\* a call of get_bot_response has returned
Responded == pc = "responded"

\* the return statements of get_bot_response before the first
\* "return fallback" of line 598
HandlerReturns == { 382, 385, 392, 433, 474, 500, 505, 523, 529, 556, 561,
                    579, 581, 586, 596 }

\* C26: for every data snapshot, a call of get_bot_response returns at the
\* first "return fallback" (line 598) exactly when detect_intent gave
\* unknown; for every other intent it returns at a statement of that
\* intent's block before line 598, so that no statement after line 598 is
\* ever executed.
C26_FallbackExactlyForUnknown ==
    Responded =>
        /\ (bot_reply.line = 598) <=> (bot_intent = "unknown")
        /\ bot_reply.line <= 598
        /\ bot_intent # "unknown" => bot_reply.line \in HandlerReturns

\* an utterance of unknown intent is answered with the fallback, with a
\* snapshot that has every kind of data
C26_Witness ==
    /\ Responded
    /\ bot_intent = "unknown"
    /\ bot_reply.line = 598
    /\ snapshot = Snapshots[1]

\* the search of the menu was part of the call
SearchedInCall == Responded /\ bot_scorers.extract.called

HandlerReturned(w) == requests[w].pc = "returned"

\* the worker is inside get_bot_response or has returned from it
InBot(w) == requests[w].bot_called

\* C27: a worker calls get_bot_response only with its local data referring
\* to the snapshot that startup_event loaded; a request that read
\* app.state.data while it was absent returns the starting up reply (line 48,
\* or line 63 with an empty list of actions) without calling
\* get_bot_response; app.state.data is set only by the step of startup_event
\* in which load_data returns, which happens at most once; and when load_data
\* raised, app.state.data stays absent.
C27_BotOnlyWithLoadedSnapshot ==
    /\ [](\A w \in Workers :
            /\ InBot(w) =>
                  /\ requests[w].data = "object"
                  /\ startup = "done"
                  /\ app_state_data = "object"
            /\ HandlerReturned(w) /\ requests[w].data = "None" =>
                  /\ ~InBot(w)
                  /\ requests[w].line = starting_up_line(requests[w].endpoint)
                  /\ requests[w].actions = << >>
                  /\ requests[w].reply = NoReply
            /\ HandlerReturned(w) /\ requests[w].data = "object" =>
                  /\ InBot(w)
                  /\ requests[w].line = response_line(requests[w].endpoint))
    /\ [](startup = "failed" => app_state_data = "absent")
    /\ [](app_state_data = "object" => startup = "done")
    /\ [][app_state_data' # app_state_data =>
             /\ startup = "pending"
             /\ app_state_data = "absent"
             /\ startup' = "done"
             /\ app_state_data' = "object"]_vars
    /\ [][startup # "pending" => startup' = startup]_vars

\* a request to /api/query that read app.state.data before startup_event set
\* it returns the starting up reply although the snapshot is loaded by then,
\* while another worker is inside get_bot_response
C27_Witness ==
    /\ startup = "done"
    /\ \E w \in Workers :
          /\ HandlerReturned(w)
          /\ requests[w].endpoint = "/api/query"
          /\ requests[w].data = "None"
          /\ requests[w].line = 63
    /\ \E w \in Workers : requests[w].pc = "classified"

\* what the request of the worker yields when it runs alone on the snapshot
\* that load_data returned, with the same outcome of the scorers
alone(w) ==
    get_bot_response(requests[w].intent, requests[w].message, loaded_data,
                     requests[w].scorers.extract, requests[w].scorers.ratios)

====
